---- MODULE Spec2Model ----
(***************************************************************************)
(* parasolr: the SolrQuerySet query builder (parasolr/query/queryset.py),   *)
(* its alias layer (parasolr/query/aliased_queryset.py) and the transport   *)
(* boundary it executes through (parasolr/solr/client.py, solr/base.py).    *)
(*                                                                          *)
(* Python objects have identity, so the lists and dicts of a queryset live  *)
(* in a heap of cells and a queryset holds references to them.  Strings are *)
(* TLA+ strings; Python values of mixed type are tagged records.            *)
(***************************************************************************)
EXTENDS Integers, Sequences, FiniteSets, TLC

VARIABLES
    heap,      \* the lists and dicts alive, by address
    objs,      \* the querysets created so far
    compiled,  \* the map returned by the last direct call of query_opts
    term,      \* the last direct call of a function of the library: arguments and result
    threads    \* the get_results calls in progress, one in each thread: position and locals

vars == <<heap, objs, compiled, term, threads>>

(***************************************************************************)
(* Bounds of the model.                                                     *)
(***************************************************************************)
\* querysets alive at once (constructed or returned by a directive)
MaxBuilders == 2
\* documents held by the backend index: more than the page the backend
\* returns when no rows are asked for
NumDocs == 12

(***************************************************************************)
(* Python values.                                                           *)
(***************************************************************************)
None == [none |-> TRUE]
S(v) == [str |-> v]
I(v) == [int |-> v]
B(v) == [bool |-> v]
L(v) == [list |-> v]
D(v) == [dict |-> v]

IsStr(v) == DOMAIN v = {"str"}
IsInt(v) == DOMAIN v = {"int"}
IsBool(v) == DOMAIN v = {"bool"}
IsList(v) == DOMAIN v = {"list"}

\* "%s" % value
Fmt(v) ==
    IF IsStr(v) THEN v.str
    ELSE IF IsInt(v) THEN ToString(v.int)
    ELSE IF IsBool(v) THEN (IF v.bool THEN "True" ELSE "False")
    ELSE "None"

\* bool(value)
Truthy(v) ==
    IF v = None THEN FALSE
    ELSE IF IsStr(v) THEN v.str # ""
    ELSE IF IsInt(v) THEN v.int # 0
    ELSE IF IsBool(v) THEN v.bool
    ELSE IF IsList(v) THEN v.list # <<>>
    ELSE TRUE

\* the empty dict
EmptyDict == <<>>

\* dict.update(new): keys of new replace those of d
Update(d, new) == new @@ d

\* dict(pairs) for a sequence of <<key, value>> pairs (keyword arguments)
RECURSIVE DictOf(_)
DictOf(kw) ==
    IF kw = <<>> THEN EmptyDict
    ELSE Update(DictOf(SubSeq(kw, 1, Len(kw) - 1)), kw[Len(kw)][1] :> kw[Len(kw)][2])

HasKey(d, k) == k \in DOMAIN d

(***************************************************************************)
(* Strings.                                                                 *)
(***************************************************************************)
\* sep.join(seq)
RECURSIVE Join(_, _)
Join(sep, seq) ==
    IF seq = <<>> THEN ""
    ELSE IF Len(seq) = 1 THEN seq[1]
    ELSE seq[1] \o sep \o Join(sep, Tail(seq))

\* s.startswith(p)
StartsWith(s, p) == Len(s) >= Len(p) /\ SubSeq(s, 1, Len(p)) = p

\* s.lstrip("-")
RECURSIVE LStripDash(_)
LStripDash(s) ==
    IF StartsWith(s, "-") THEN LStripDash(SubSeq(s, 2, Len(s))) ELSE s

\* index of the first occurrence of sep in s, 0 when there is none
Find(s, sep) ==
    LET hits == {i \in 1..Len(s) : i + Len(sep) - 1 <= Len(s)
                                   /\ SubSeq(s, i, i + Len(sep) - 1) = sep}
    IN  IF hits = {} THEN 0 ELSE CHOOSE i \in hits : \A j \in hits : i <= j

\* s.split(sep, 1)
Split1(s, sep) ==
    LET i == Find(s, sep)
    IN  IF i = 0 THEN <<s>>
        ELSE <<SubSeq(s, 1, i - 1), SubSeq(s, i + Len(sep), Len(s))>>

\* s.split(sep)
RECURSIVE Split(_, _)
Split(s, sep) ==
    LET i == Find(s, sep)
    IN  IF i = 0 THEN <<s>>
        ELSE <<SubSeq(s, 1, i - 1)>> \o Split(SubSeq(s, i + Len(sep), Len(s)), sep)

(***************************************************************************)
(* SolrQuerySet class attributes.                                           *)
(***************************************************************************)
default_search_operator == "AND"
ANY_VALUE == "[* TO *]"
LOOKUP_SEP == "__"

\* the list and dict attributes, in the order the class body defines them;
\* the class-level default object of attribute k is heap cell k
ClassAttrs ==
    <<"sort_options", "search_qs", "filter_qs", "field_list",
      "highlight_fields", "facet_field_list", "stats_field_list",
      "range_facet_fields", "facet_opts", "stats_opts", "highlight_opts",
      "raw_params", "group_opts">>

ListAttrs ==
    {"sort_options", "search_qs", "filter_qs", "field_list",
     "highlight_fields", "facet_field_list", "stats_field_list",
     "range_facet_fields"}

Attrs == {ClassAttrs[k] : k \in DOMAIN ClassAttrs}

DefaultAddr(attr) == CHOOSE k \in DOMAIN ClassAttrs : ClassAttrs[k] = attr

\* the heap right after the class body ran: one empty object per attribute
ClassHeap ==
    [k \in DOMAIN ClassAttrs |->
        IF ClassAttrs[k] \in ListAttrs THEN L(<<>>) ELSE D(EmptyDict)]

(***************************************************************************)
(* The alias layer's class attributes.                                      *)
(***************************************************************************)
BaseCls == "SolrQuerySet"
AliasCls == "MyAliasedSolrQuerySet"

\* field_aliases of the subclass under study, in definition order
field_aliases_items ==
    <<<<"name", "name_t">>, <<"year", "year_i">>>>

field_aliases(cls) ==
    IF cls = AliasCls
    THEN [k \in {field_aliases_items[n][1] : n \in DOMAIN field_aliases_items} |->
            LET n == CHOOSE n \in DOMAIN field_aliases_items :
                        field_aliases_items[n][1] = k
            IN  field_aliases_items[n][2]]
    ELSE EmptyDict

\* dict.get(key, key)
GetOrSelf(d, k) == IF HasKey(d, k) THEN d[k] ELSE k

\* reverse_aliases, built by the constructor
reverse_aliases(cls) ==
    LET fa == field_aliases(cls)
    IN  [v \in {fa[k] : k \in DOMAIN fa} |-> CHOOSE k \in DOMAIN fa : fa[k] = v]

(***************************************************************************)
(* Worlds: a heap of list/dict objects and the querysets created so far.    *)
(* A queryset is [cls, start, stop, group_field, _result_cache, ref], ref   *)
(* mapping each list/dict attribute to the heap cell it refers to.          *)
(***************************************************************************)
World == [heap |-> heap, objs |-> objs]

\* the value of attribute attr of queryset b: a sequence or a dict
Get(w, b, attr) ==
    LET cell == w.heap[b.ref[attr]]
    IN  IF attr \in ListAttrs THEN cell.list ELSE cell.dict

\* self.attr = <new object>, on queryset i
SetNew(w, i, attr, cell) ==
    [heap |-> Append(w.heap, cell),
     objs |-> [w.objs EXCEPT ![i].ref[attr] = Len(w.heap) + 1]]

\* in-place change of the object attribute attr of queryset i refers to
Mutate(w, i, attr, cell) ==
    [w EXCEPT !.heap[w.objs[i].ref[attr]] = cell]

\* the queryset created last
Last(w) == Len(w.objs)

\* SolrQuerySet.__init__: no list or dict is created; every attribute of the
\* instance resolves to the class-level object
__init__(w, cls) ==
    [w EXCEPT !.objs = Append(@,
        [cls |-> cls, start |-> 0, stop |-> None, group_field |-> None,
         _result_cache |-> None,
         ref |-> [a \in Attrs |-> DefaultAddr(a)]])]

\* AliasedSolrQuerySet.__init__: the field list is a new list seeded from
\* field_aliases
Aliased__init__(w, cls) ==
    LET Seeded(w1) ==
            SetNew(w1, Last(w1), "field_list",
                   L([n \in DOMAIN field_aliases_items |->
                        field_aliases_items[n][1] \o ":" \o field_aliases_items[n][2]]))
    IN  Seeded(__init__(w, cls))

\* cls(solr=...)
New(w, cls) == IF cls = AliasCls THEN Aliased__init__(w, cls) ELSE __init__(w, cls)

\* the attributes _clone copies, in the order of its assignments
CloneAttrs ==
    <<"highlight_fields", "search_qs", "filter_qs", "sort_options",
      "field_list", "range_facet_fields", "highlight_opts", "raw_params",
      "facet_field_list", "facet_opts", "stats_field_list", "stats_opts">>

\* qs_copy.attr = list(self.attr) / dict(self.attr), for each of CloneAttrs:
\* the copies are allocated in the order of the assignments
CopyAttrs(w, i, c) ==
    LET at      == Len(w.heap)
        cloned  == {CloneAttrs[k] : k \in DOMAIN CloneAttrs}
        slot(a) == CHOOSE k \in DOMAIN CloneAttrs : CloneAttrs[k] = a
    IN  [heap |-> w.heap \o [k \in DOMAIN CloneAttrs |->
                                w.heap[w.objs[i].ref[CloneAttrs[k]]]],
         objs |-> [w.objs EXCEPT ![c].ref =
                      [a \in Attrs |-> IF a \in cloned THEN at + slot(a) ELSE @[a]]]]

\* a faulty clone: the filter list is assigned, not copied
_clone_shared(w, i) ==
    LET Shared(w3) ==
            [w3 EXCEPT !.objs[Last(w3)].ref["filter_qs"] = w.objs[i].ref["filter_qs"]]
        Copied(w1) ==
            Shared(CopyAttrs([w1 EXCEPT !.objs[Last(w1)].start = w.objs[i].start,
                                        !.objs[Last(w1)].stop = w.objs[i].stop],
                             i, Last(w1)))
    IN  Copied(New(w, w.objs[i].cls))

\* a faulty clone: the result cache travels with the copy
_clone_with_cache(w, i) ==
    LET Copied(w1) ==
            CopyAttrs([w1 EXCEPT !.objs[Last(w1)].start = w.objs[i].start,
                                 !.objs[Last(w1)].stop = w.objs[i].stop,
                                 !.objs[Last(w1)]._result_cache =
                                     w.objs[i]._result_cache],
                      i, Last(w1))
    IN  Copied(New(w, w.objs[i].cls))

\* SolrQuerySet._clone: a new instance of the same class, start and stop
\* assigned, every list and dict copied; the result cache is not copied
\* a faulty _clone: the field list the constructor gave the copy stays
_clone_reseeded(w, i) ==
    LET Kept(w1, w2) ==
            [w2 EXCEPT !.objs[Last(w2)].ref["field_list"] =
                           w1.objs[Last(w1)].ref["field_list"]]
        Copied(w1) ==
            Kept(w1, CopyAttrs([w1 EXCEPT !.objs[Last(w1)].start = w.objs[i].start,
                                          !.objs[Last(w1)].stop = w.objs[i].stop],
                               i, Last(w1)))
    IN  Copied(New(w, w.objs[i].cls))

_clone(w, i) ==
    LET Copied(w1) ==
            CopyAttrs([w1 EXCEPT !.objs[Last(w1)].start = w.objs[i].start,
                                 !.objs[Last(w1)].stop = w.objs[i].stop],
                      i, Last(w1))
    IN  Copied(New(w, w.objs[i].cls))

\* the grouping attributes of a clone: the group field is assigned and the
\* group options are copied
_clone_group(w, i) ==
    LET c  == Last(w)
        w1 == [w EXCEPT !.objs[c].group_field = w.objs[i].group_field]
    IN  SetNew(w1, c, "group_opts", w.heap[w.objs[i].ref["group_opts"]])

\* the clone every directive starts from
Clone(w, i) == _clone_group(_clone(w, i), i)

(***************************************************************************)
(* Keyword arguments: a sequence of <<key, value>> pairs with unique keys.  *)
(***************************************************************************)
KwKeys(kw) == {kw[n][1] : n \in DOMAIN kw}

\* kwargs[key] = value: in place for a key already there, else appended
KwPut(kw, k, v) ==
    IF k \in KwKeys(kw)
    THEN [n \in DOMAIN kw |-> IF kw[n][1] = k THEN <<k, v>> ELSE kw[n]]
    ELSE Append(kw, <<k, v>>)

\* kwargs.update(pairs)
RECURSIVE KwUpdate(_, _)
KwUpdate(kw, new) ==
    IF new = <<>> THEN kw
    ELSE KwUpdate(KwPut(kw, new[1][1], new[1][2]), Tail(new))

\* the keys of a sequence of pairs replaced by those of keys, values kept
KwMapKeys(kw, keys) == [n \in DOMAIN kw |-> <<keys[n], kw[n][2]>>]

(***************************************************************************)
(* SolrQuerySet._lookup_to_filter                                           *)
(***************************************************************************)
\* a filter that returns the values kept last to first
RECURSIVE DropSentinels_reversed(_)
DropSentinels_reversed(vs) ==
    IF vs = <<>> THEN <<>>
    ELSE IF vs[1] \in {S(""), None} THEN DropSentinels_reversed(Tail(vs))
    ELSE DropSentinels_reversed(Tail(vs)) \o <<vs[1]>>

\* filter(lambda x: x not in ["", None], value)
RECURSIVE DropSentinels(_)
DropSentinels(vs) ==
    IF vs = <<>> THEN <<>>
    ELSE IF vs[1] \in {S(""), None} THEN DropSentinels(Tail(vs))
    ELSE <<vs[1]>> \o DropSentinels(Tail(vs))

_lookup_to_filter(key, value, tag) ==
    LET split_key == Split1(key, LOOKUP_SEP)
        field     == split_key[1]
        lookup    == split_key[2]
        in_query  ==
            LET not_exists == \E n \in DOMAIN value.list : value.list[n] \in {S(""), None}
                vals       == DropSentinels(value.list)
                plain      == field \o ":(" \o
                              Join(" OR ", [n \in DOMAIN vals |-> vals[n].str]) \o ")"
            IN  IF vals = <<>> THEN "-" \o field \o ":" \o ANY_VALUE
                ELSE IF not_exists
                THEN "-(" \o field \o ":" \o ANY_VALUE \o " OR -" \o plain \o ")"
                ELSE plain
        exists_query ==
            (IF Truthy(value) THEN "" ELSE "-") \o field \o ":" \o ANY_VALUE
        range_query ==
            LET start == value.pair[1]
                end   == value.pair[2]
            IN  field \o ":[" \o Fmt(IF Truthy(start) THEN start ELSE S("*"))
                      \o " TO " \o Fmt(IF Truthy(end) THEN end ELSE S("*")) \o "]"
        solr_query ==
            IF Len(split_key) = 1 THEN key \o ":" \o Fmt(value)
            ELSE IF lookup = "in" THEN in_query
            ELSE IF lookup = "exists" THEN exists_query
            ELSE IF lookup = "range" THEN range_query
            ELSE ""
    IN  IF tag # "" THEN "{!tag=" \o tag \o "}" \o solr_query ELSE solr_query

(***************************************************************************)
(* The directives of SolrQuerySet.  Each takes the world and the receiver   *)
(* and returns the world with the new queryset created last.                *)
(***************************************************************************)
\* list.extend / list.append on attribute attr of queryset c
Extend(w, c, attr, items) == Mutate(w, c, attr, L(Get(w, w.objs[c], attr) \o items))

\* dict.update on attribute attr of queryset c
UpdateAttr(w, c, attr, new) == Mutate(w, c, attr, D(Update(Get(w, w.objs[c], attr), new)))

filter(w, i, args, tag, kwargs) ==
    LET Filtered(qs_copy) ==
            Extend(Extend(qs_copy, Last(qs_copy), "filter_qs", args),
                   Last(qs_copy), "filter_qs",
                   [n \in DOMAIN kwargs |->
                       _lookup_to_filter(kwargs[n][1], kwargs[n][2], tag)])
    IN  Filtered(Clone(w, i))

\* facet that adds its fields to the facet fields there are
facet_extending(w, i, args, kwargs) ==
    LET Faceted(qs_copy) ==
            UpdateAttr(Extend(qs_copy, Last(qs_copy), "facet_field_list", args),
                       Last(qs_copy), "facet_opts", DictOf(kwargs))
    IN  Faceted(Clone(w, i))

facet(w, i, args, kwargs) ==
    LET Faceted(qs_copy) ==
            UpdateAttr(SetNew(qs_copy, Last(qs_copy), "facet_field_list", L(args)),
                       Last(qs_copy), "facet_opts", DictOf(kwargs))
    IN  Faceted(Clone(w, i))

stats(w, i, args, kwargs) ==
    LET Set(qs_copy) ==
            UpdateAttr(SetNew(qs_copy, Last(qs_copy), "stats_field_list", L(args)),
                       Last(qs_copy), "stats_opts", DictOf(kwargs))
    IN  Set(Clone(w, i))

facet_field(w, i, field, exclude, kwargs) ==
    LET Key(opt) == "f." \o field \o ".facet." \o opt
        Faceted(qs_copy) ==
            UpdateAttr(Extend(qs_copy, Last(qs_copy), "facet_field_list",
                              <<IF exclude # "" THEN "{!ex=" \o exclude \o "}" \o field
                                ELSE field>>),
                       Last(qs_copy), "facet_opts",
                       DictOf(KwMapKeys(kwargs,
                                        [n \in DOMAIN kwargs |-> Key(kwargs[n][1])])))
    IN  Faceted(Clone(w, i))

facet_range(w, i, field, kwargs) ==
    LET Key(opt) == "f." \o field \o ".facet.range." \o opt
        Faceted(qs_copy) ==
            UpdateAttr(Extend(qs_copy, Last(qs_copy), "range_facet_fields", <<field>>),
                       Last(qs_copy), "facet_opts",
                       DictOf(KwMapKeys(kwargs,
                                        [n \in DOMAIN kwargs |-> Key(kwargs[n][1])])))
    IN  Faceted(Clone(w, i))

search(w, i, args, kwargs) ==
    LET Searched(qs_copy) ==
            Extend(Extend(qs_copy, Last(qs_copy), "search_qs", args),
                   Last(qs_copy), "search_qs",
                   [n \in DOMAIN kwargs |->
                       _lookup_to_filter(kwargs[n][1], kwargs[n][2], "")])
    IN  Searched(Clone(w, i))

\* a faulty order_by: the options are appended to the receiver's list
order_by_on_self(w, i, args) ==
    LET Opt(a) == IF StartsWith(a, "-") THEN LStripDash(a) \o " desc" ELSE a \o " asc"
    IN  Extend(Clone(w, i), i, "sort_options", [n \in DOMAIN args |-> Opt(args[n])])

order_by(w, i, args) ==
    LET Opt(a) == IF StartsWith(a, "-") THEN LStripDash(a) \o " desc" ELSE a \o " asc"
        Ordered(qs_copy) ==
            Extend(qs_copy, Last(qs_copy), "sort_options",
                   [n \in DOMAIN args |-> Opt(args[n])])
    IN  Ordered(Clone(w, i))

\* only that extends the field list whatever replace is
only_extending(w, i, args, replace, kwargs) ==
    LET Limited(qs_copy) ==
            Extend(Extend(qs_copy, Last(qs_copy), "field_list", args),
                   Last(qs_copy), "field_list",
                   [n \in DOMAIN kwargs |-> kwargs[n][1] \o ":" \o Fmt(kwargs[n][2])])
    IN  Limited(Clone(w, i))

only(w, i, args, replace, kwargs) ==
    LET Limited(qs_copy) ==
            Extend(IF replace THEN SetNew(qs_copy, Last(qs_copy), "field_list", L(args))
                   ELSE Extend(qs_copy, Last(qs_copy), "field_list", args),
                   Last(qs_copy), "field_list",
                   [n \in DOMAIN kwargs |-> kwargs[n][1] \o ":" \o Fmt(kwargs[n][2])])
    IN  Limited(Clone(w, i))

highlight(w, i, field, kwargs) ==
    LET Key(opt) == "f." \o field \o ".hl." \o opt
        Highlighted(qs_copy) ==
            UpdateAttr(Extend(qs_copy, Last(qs_copy), "highlight_fields", <<field>>),
                       Last(qs_copy), "highlight_opts",
                       DictOf(KwMapKeys(kwargs,
                                        [n \in DOMAIN kwargs |-> Key(kwargs[n][1])])))
    IN  Highlighted(Clone(w, i))

\* a faulty raw_query_parameters: the receiver's dict is updated
raw_query_parameters_on_self(w, i, kwargs) ==
    UpdateAttr(Clone(w, i), i, "raw_params", DictOf(kwargs))

raw_query_parameters(w, i, kwargs) ==
    LET Updated(qs_copy) ==
            UpdateAttr(qs_copy, Last(qs_copy), "raw_params", DictOf(kwargs))
    IN  Updated(Clone(w, i))

all(w, i) == Clone(w, i)

none(w, i) ==
    LET Emptied(qs_copy) ==
            SetNew(qs_copy, Last(qs_copy), "search_qs", L(<<"NOT *:*">>))
    IN  Emptied(Clone(w, i))

\* group storing each option under its bare name
group_unprefixed(w, i, field, kwargs) ==
    LET Grouped(qs_copy) ==
            UpdateAttr([qs_copy EXCEPT !.objs[Last(qs_copy)].group_field = S(field)],
                       Last(qs_copy), "group_opts", DictOf(kwargs))
    IN  Grouped(Clone(w, i))

\* group(field, **kwargs): the group field is set on the clone and each option
\* is stored under "group.<opt>"
group(w, i, field, kwargs) ==
    LET Key(opt) == "group." \o opt
        Grouped(qs_copy) ==
            UpdateAttr([qs_copy EXCEPT !.objs[Last(qs_copy)].group_field = S(field)],
                       Last(qs_copy), "group_opts",
                       DictOf(KwMapKeys(kwargs,
                                        [n \in DOMAIN kwargs |-> Key(kwargs[n][1])])))
    IN  Grouped(Clone(w, i))

(***************************************************************************)
(* The directives AliasedSolrQuerySet overrides.                            *)
(***************************************************************************)
_unalias_args(cls, args) ==
    [n \in DOMAIN args |-> GetOrSelf(field_aliases(cls), args[n])]

\* an unaliasing that looks the whole key up, lookup included
_unalias_kwargs_whole_key(cls, kwargs) ==
    KwUpdate(<<>>, KwMapKeys(kwargs,
        [n \in DOMAIN kwargs |-> GetOrSelf(field_aliases(cls), kwargs[n][1])]))

_unalias_kwargs_with_lookups(cls, kwargs) ==
    LET NewKey(key) ==
            LET field_parts == Split1(key, LOOKUP_SEP)
                field       == GetOrSelf(field_aliases(cls), field_parts[1])
            IN  IF Len(field_parts) > 1 THEN field \o "__" \o field_parts[2] ELSE field
    IN  KwUpdate(<<>>, KwMapKeys(kwargs,
            [n \in DOMAIN kwargs |-> NewKey(kwargs[n][1])]))

Aliased_filter(w, i, args, tag, kwargs) ==
    filter(w, i, args, tag, _unalias_kwargs_with_lookups(w.objs[i].cls, kwargs))

\* search on an alias queryset: the keywords are unaliased as for filter
Aliased_search(w, i, args, kwargs) ==
    search(w, i, args, _unalias_kwargs_with_lookups(w.objs[i].cls, kwargs))

Aliased_facet(w, i, args, kwargs) ==
    facet(w, i, _unalias_args(w.objs[i].cls, args), kwargs)

Aliased_facet_field(w, i, field, exclude, kwargs) ==
    facet_field(w, i, GetOrSelf(field_aliases(w.objs[i].cls), field), exclude, kwargs)

Aliased_order_by(w, i, args) ==
    order_by(w, i, _unalias_args(w.objs[i].cls, args))

\* positional fields become keyword arguments alias -> solr field; replace
\* travels in the keyword arguments to the base method
Aliased_only(w, i, args, replace, kwargs) ==
    only(w, i, <<>>, replace,
         KwUpdate(kwargs,
                  [n \in DOMAIN args |->
                      <<args[n], S(GetOrSelf(field_aliases(w.objs[i].cls), args[n]))>>]))

Aliased_highlight(w, i, field, kwargs) ==
    highlight(w, i, GetOrSelf(field_aliases(w.objs[i].cls), field), kwargs)

\* group on an alias queryset: the field is translated through the aliases
Aliased_group(w, i, field, kwargs) ==
    group(w, i, GetOrSelf(field_aliases(w.objs[i].cls), field), kwargs)

IsAliased(w, i) == w.objs[i].cls = AliasCls

(***************************************************************************)
(* SolrQuerySet.query_opts: the parameters compiled from a queryset.        *)
(***************************************************************************)
_set_highlighting_opts(w, b, query_opts) ==
    IF Get(w, b, "highlight_fields") # <<>>
    THEN Update(Update(query_opts,
                       [k \in {"hl", "hl.fl"} |->
                           IF k = "hl" THEN B(TRUE)
                           ELSE S(Join(",", Get(w, b, "highlight_fields")))]),
                Get(w, b, "highlight_opts"))
    ELSE query_opts

\* each option of opts stored under key[option]
Rekeyed(opts, key) ==
    [k \in {key[o] : o \in DOMAIN opts} |->
        opts[CHOOSE o \in DOMAIN opts : key[o] = k]]

_set_faceting_opts(w, b, query_opts) ==
    LET facet_opts == Get(w, b, "facet_opts")
        Key(key)   == IF StartsWith(key, "f.") THEN key ELSE "facet." \o key
    IN  IF \/ Get(w, b, "facet_field_list") # <<>>
           \/ Get(w, b, "range_facet_fields") # <<>>
           \/ facet_opts # EmptyDict
        THEN Update(Update(query_opts,
                           [k \in {"facet", "facet.field", "facet.range"} |->
                               IF k = "facet" THEN B(TRUE)
                               ELSE IF k = "facet.field"
                               THEN L(Get(w, b, "facet_field_list"))
                               ELSE L(Get(w, b, "range_facet_fields"))]),
                    Rekeyed(facet_opts,
                            [o \in DOMAIN facet_opts |-> Key(o)]))
        ELSE query_opts

\* a faulty stats block: turned on by stats options alone, as faceting is
_set_stats_opts_like_facets(w, b, query_opts) ==
    LET stats_opts == Get(w, b, "stats_opts")
        Key(key)   == IF StartsWith(key, "stats") THEN key ELSE "stats." \o key
    IN  IF Get(w, b, "stats_field_list") # <<>> \/ stats_opts # EmptyDict
        THEN Update(Update(query_opts,
                           [k \in {"stats", "stats.field"} |->
                               IF k = "stats" THEN B(TRUE)
                               ELSE L(Get(w, b, "stats_field_list"))]),
                    Rekeyed(stats_opts,
                            [o \in DOMAIN stats_opts |-> Key(o)]))
        ELSE query_opts

_set_stats_opts(w, b, query_opts) ==
    LET stats_opts == Get(w, b, "stats_opts")
        Key(key)   == IF StartsWith(key, "stats") THEN key ELSE "stats." \o key
    IN  IF Get(w, b, "stats_field_list") # <<>>
        THEN Update(Update(query_opts,
                           [k \in {"stats", "stats.field"} |->
                               IF k = "stats" THEN B(TRUE)
                               ELSE L(Get(w, b, "stats_field_list"))]),
                    Rekeyed(stats_opts,
                            [o \in DOMAIN stats_opts |-> Key(o)]))
        ELSE query_opts

\* the grouping block: with a group field, group is turned on, group.field is
\* the field and the group options are merged as stored
_set_group_opts(w, b, query_opts) ==
    IF Truthy(b.group_field)
    THEN Update(Update(query_opts,
                       [k \in {"group", "group.field"} |->
                           IF k = "group" THEN B(TRUE) ELSE b.group_field]),
                Get(w, b, "group_opts"))
    ELSE query_opts

\* self._search_op, set by the constructor
_search_op == " " \o default_search_operator \o " "

\* {k: v for k, v in query_opts.items() if v not in ["", []]}
StripEmpty(query_opts) ==
    [k \in {k \in DOMAIN query_opts : query_opts[k] \notin {S(""), L(<<>>)}} |->
        query_opts[k]]

query_opts(w, b) ==
    LET q     == Join(_search_op, Get(w, b, "search_qs"))
        base  == [k \in {"start", "fq", "fl", "q", "sort"} |->
                    CASE k = "start" -> I(b.start)
                      [] k = "fq"    -> L(Get(w, b, "filter_qs"))
                      [] k = "fl"    -> S(Join(",", Get(w, b, "field_list")))
                      [] k = "q"     -> S(IF q # "" THEN q ELSE "*:*")
                      [] k = "sort"  -> S(Join(",", Get(w, b, "sort_options")))]
        rows  == IF Truthy(b.stop)
                 THEN Update(base, "rows" :> I(b.stop.int - b.start))
                 ELSE base
        hl    == _set_highlighting_opts(w, b, rows)
        fac   == _set_faceting_opts(w, b, hl)
        st    == _set_stats_opts(w, b, fac)
        grp   == _set_group_opts(w, b, st)
        raw   == Update(grp, Get(w, b, "raw_params"))
    IN  StripEmpty(raw)

(***************************************************************************)
(* The transport: ClientBase.make_request and SolrClient.query, and the     *)
(* backend behind them.  A call either returns a value, returns None, or    *)
(* raises: [raise |-> <exception>].                                         *)
(***************************************************************************)
HttpOk == 200
HttpNotFound == 404

Raise(exc) == [raise |-> exc]
Raised(r) == DOMAIN r = {"raise"}

\* what a request can meet: the session fails to connect, or an HTTP status
\* and, in a 200 body, the status of Solr's responseHeader
Conditions ==
    {[net |-> "down", status |-> 0, solr_status |-> 0]} \cup
    {[net |-> "up", status |-> c[1], solr_status |-> c[2]] :
        c \in {<<HttpOk, 0>>, <<HttpOk, 1>>, <<HttpNotFound, 0>>, <<500, 0>>}}

Succeeds(cond) == cond.net = "up" /\ cond.status = HttpOk /\ cond.solr_status = 0

\* the rows Solr returns when none are asked for
SolrDefaultRows == 10

Min(a, b) == IF a < b THEN a ELSE b

\* the flat [value, count, ...] array Solr returns for one facet
FlatCounts == <<S("x"), I(2), S("y"), I(1)>>

\* Solr's JSON body for the parameters of a select request
SolrBody(params) ==
    LET found == IF ~ HasKey(params, "q") \/ params["q"] = S("NOT *:*")
                 THEN 0 ELSE NumDocs
        start == params["start"].int
        rows  == IF HasKey(params, "rows") THEN params["rows"].int ELSE SolrDefaultRows
        docs  == [n \in 1..(IF start + rows > found
                            THEN (IF found > start THEN found - start ELSE 0)
                            ELSE (IF rows > 0 THEN rows ELSE 0)) |-> [id |-> start + n]]
        on(k) == HasKey(params, k) /\ params[k] = B(TRUE)
        list(k) == IF HasKey(params, k) THEN params[k].list ELSE <<>>
        keys(k) == {list(k)[n] : n \in DOMAIN list(k)}
        Fields(names) == {names[n] : n \in DOMAIN names}
    IN  [params       |-> params,
         numFound     |-> found,
         docs         |-> docs,
         facet_counts |->
            IF on("facet")
            THEN [s \in {"facet_fields", "facet_ranges"} |->
                    IF s = "facet_fields"
                    THEN [f \in keys("facet.field") |-> FlatCounts]
                    ELSE [f \in keys("facet.range") |-> [counts |-> FlatCounts]]]
            ELSE None,
         stats        |->
            IF on("stats")
            THEN "stats_fields" :> [f \in keys("stats.field") |-> [min |-> 1, max |-> NumDocs]]
            ELSE None,
         highlighting |->
            IF on("hl")
            THEN [n \in {ToString(docs[d].id) : d \in DOMAIN docs} |->
                    [f \in Fields(Split(params["hl.fl"].str, ",")) |-> <<"snippet">>]]
            ELSE None,
         expanded     |-> None]

\* ClientBase.make_request
make_request(params, cond) ==
    IF cond.net = "down" THEN Raise("ConnectionError")
    ELSE IF cond.status = HttpNotFound THEN Raise("SolrConnectionNotFound")
    ELSE IF cond.status # HttpOk THEN None
    ELSE IF cond.solr_status # 0 THEN None
    ELSE SolrBody(params)

\* OrderedDict(pairs), as its items in order: a key met again keeps its
\* place and takes the later value
RECURSIVE OrderedDict(_)
OrderedDict(pairs) ==
    IF pairs = <<>> THEN <<>>
    ELSE LET Put(items, pair) ==
                 IF \E n \in DOMAIN items : items[n][1] = pair[1]
                 THEN [n \in DOMAIN items |->
                          IF items[n][1] = pair[1] THEN pair ELSE items[n]]
                 ELSE Append(items, pair)
         IN  Put(OrderedDict(SubSeq(pairs, 1, Len(pairs) - 1)), pairs[Len(pairs)])

\* a faulty conversion: the pairs are taken from the end of the array
Pairs_reversed(flat) ==
    OrderedDict([n \in 1..(Len(flat) \div 2) |->
                    <<flat[Len(flat) - 2 * n + 1], flat[Len(flat) - 2 * n + 2]>>])

\* OrderedDict(zip(v[::2], v[1::2]))
Pairs(flat) ==
    OrderedDict([n \in 1..(Len(flat) \div 2) |-> <<flat[2 * n - 1], flat[2 * n]>>])

\* BaseResponse._process_facet_counts
_process_facet_counts(facet_counts) ==
    [s \in DOMAIN facet_counts |->
        IF s = "facet_fields"
        THEN [f \in DOMAIN facet_counts[s] |-> Pairs(facet_counts[s][f])]
        ELSE [f \in DOMAIN facet_counts[s] |->
                [facet_counts[s][f] EXCEPT !.counts = Pairs(@)]]]

\* dict.get(key, {}) on a section of the body
Section(v) == IF v = None THEN EmptyDict ELSE v

\* QueryResponse(response): the wrapper and its properties
QueryResponse(response) ==
    [params       |-> response.params,
     numFound     |-> response.numFound,
     docs         |-> response.docs,
     facet_counts |-> IF response.facet_counts = None THEN EmptyDict
                      ELSE _process_facet_counts(response.facet_counts),
     stats        |-> Section(response.stats),
     highlighting |-> Section(response.highlighting),
     expanded     |-> Section(response.expanded)]

\* SolrClient.query
solr_query(params, cond) ==
    LET Wrapped(response) ==
            IF Raised(response) THEN response
            ELSE IF response # None THEN QueryResponse(response)
            ELSE None
    IN  Wrapped(make_request(params, cond))

(***************************************************************************)
(* Execution.  Each operator returns [w, val, sent]: the world afterwards,  *)
(* the value returned (or [raise |-> ...]) and the parameters of every      *)
(* transport call made, in order.                                           *)
(***************************************************************************)
Out(w, val, calls) == [w |-> w, val |-> val, sent |-> calls]

\* a faulty get_results: the documents are read without testing the response
get_results_unchecked(w, i, kwargs, cond) ==
    LET Cached(opts, result) ==
            IF Raised(result) THEN Out(w, result, <<opts>>)
            ELSE Out([w EXCEPT !.objs[i]._result_cache = result],
                     IF result # None THEN L(result.docs) ELSE Raise("AttributeError"),
                     <<opts>>)
        Sent(opts) == Cached(opts, solr_query(opts, cond))
    IN  Sent(Update(query_opts(w, w.objs[i]), kwargs))

\* a faulty get_results: the compiled parameters are laid over the keyword
\* arguments
get_results_state_wins(w, i, kwargs, cond) ==
    LET Cached(opts, result) ==
            IF Raised(result) THEN Out(w, result, <<opts>>)
            ELSE Out([w EXCEPT !.objs[i]._result_cache = result],
                     IF result # None THEN L(result.docs) ELSE L(<<>>),
                     <<opts>>)
        Sent(opts) == Cached(opts, solr_query(opts, cond))
    IN  Sent(Update(kwargs, query_opts(w, w.objs[i])))

\* SolrQuerySet.get_results(**kwargs)
get_results(w, i, kwargs, cond) ==
    LET Cached(opts, result) ==
            IF Raised(result) THEN Out(w, result, <<opts>>)
            ELSE Out([w EXCEPT !.objs[i]._result_cache = result],
                     IF result # None THEN L(result.docs) ELSE L(<<>>),
                     <<opts>>)
        Sent(opts) == Cached(opts, solr_query(opts, cond))
    IN  Sent(Update(query_opts(w, w.objs[i]), kwargs))

\* the parameters of a dedicated query: keys forced by dictionary assignment
Forced(opts, keys) ==
    Update(opts, [k \in keys |-> IF k = "rows" THEN I(0) ELSE B(FALSE)])

\* a faulty count: the response of the dedicated query is kept as the cache
count_caching(w, i, cond) ==
    LET cache == w.objs[i]._result_cache
        Counted(opts, result) ==
            IF Raised(result) THEN Out(w, result, <<opts>>)
            ELSE IF result # None
            THEN Out([w EXCEPT !.objs[i]._result_cache = result],
                     I(result.numFound), <<opts>>)
            ELSE Out(w, I(0), <<opts>>)
        Sent(opts) == Counted(opts, solr_query(opts, cond))
    IN  IF cache # None THEN Out(w, I(cache.numFound), <<>>)
        ELSE Sent(Forced(query_opts(w, w.objs[i]), {"rows", "facet", "hl"}))

\* SolrQuerySet.count
count(w, i, cond) ==
    LET cache == w.objs[i]._result_cache
        Counted(opts, result) ==
            IF Raised(result) THEN Out(w, result, <<opts>>)
            ELSE IF result # None THEN Out(w, I(result.numFound), <<opts>>)
            ELSE Out(w, I(0), <<opts>>)
        Sent(opts) == Counted(opts, solr_query(opts, cond))
    IN  IF cache # None THEN Out(w, I(cache.numFound), <<>>)
        ELSE Sent(Forced(query_opts(w, w.objs[i]), {"rows", "facet", "hl"}))

\* SolrQuerySet.__len__
__len__(w, i, cond) == count(w, i, cond)

\* a faulty get_facets: the dedicated query asks for rows
get_facets_with_rows(w, i, cond) ==
    LET cache == w.objs[i]._result_cache
        Read(opts, result) ==
            IF Raised(result) THEN Out(w, result, <<opts>>)
            ELSE IF result # None THEN Out(w, D(result.facet_counts), <<opts>>)
            ELSE Out(w, D(EmptyDict), <<opts>>)
        Sent(opts) == Read(opts, solr_query(opts, cond))
    IN  IF cache # None THEN Out(w, D(cache.facet_counts), <<>>)
        ELSE Sent(Forced(query_opts(w, w.objs[i]), {"hl"}))

\* a faulty get_facets: the response of the dedicated query is kept as the
\* cache
get_facets_caching(w, i, cond) ==
    LET cache == w.objs[i]._result_cache
        Read(opts, result) ==
            IF Raised(result) THEN Out(w, result, <<opts>>)
            ELSE IF result # None
            THEN Out([w EXCEPT !.objs[i]._result_cache = result],
                     D(result.facet_counts), <<opts>>)
            ELSE Out(w, D(EmptyDict), <<opts>>)
        Sent(opts) == Read(opts, solr_query(opts, cond))
    IN  IF cache # None THEN Out(w, D(cache.facet_counts), <<>>)
        ELSE Sent(Forced(query_opts(w, w.objs[i]), {"rows", "hl"}))

\* SolrQuerySet.get_facets
get_facets(w, i, cond) ==
    LET cache == w.objs[i]._result_cache
        Read(opts, result) ==
            IF Raised(result) THEN Out(w, result, <<opts>>)
            ELSE IF result # None THEN Out(w, D(result.facet_counts), <<opts>>)
            ELSE Out(w, D(EmptyDict), <<opts>>)
        Sent(opts) == Read(opts, solr_query(opts, cond))
    IN  IF cache # None THEN Out(w, D(cache.facet_counts), <<>>)
        ELSE Sent(Forced(query_opts(w, w.objs[i]), {"rows", "hl"}))

\* SolrQuerySet.get_stats
get_stats(w, i, cond) ==
    LET cache == w.objs[i]._result_cache
        Read(opts, result) ==
            IF Raised(result) THEN Out(w, result, <<opts>>)
            ELSE IF result # None THEN Out(w, D(result.stats), <<opts>>)
            ELSE Out(w, D(EmptyDict), <<opts>>)
        Sent(opts) == Read(opts, solr_query(opts, cond))
    IN  IF cache # None THEN Out(w, D(cache.stats), <<>>)
        ELSE Sent(Forced(query_opts(w, w.objs[i]), {"rows", "hl"}))

\* if not self._result_cache: self.get_results(); then an attribute of the
\* cache is read, which fails on None
ReadCache(w, i, cond, section) ==
    LET Read(run) ==
            IF Raised(run.val) THEN run
            ELSE IF run.w.objs[i]._result_cache = None
            THEN Out(run.w, Raise("AttributeError"), run.sent)
            ELSE Out(run.w, D(run.w.objs[i]._result_cache[section]), run.sent)
    IN  Read(IF w.objs[i]._result_cache = None
             THEN get_results(w, i, EmptyDict, cond)
             ELSE Out(w, None, <<>>))

\* SolrQuerySet.get_expanded
get_expanded(w, i, cond) == ReadCache(w, i, cond, "expanded")

\* SolrQuerySet.get_highlighting
get_highlighting(w, i, cond) == ReadCache(w, i, cond, "highlighting")

\* a faulty query: the receiver is executed, not the clone
query_on_self(w, i, kwargs, cond) ==
    LET Ran(qs_copy, run) ==
            IF Raised(run.val) THEN Out(w, run.val, run.sent)
            ELSE Out(run.w, [qs |-> Last(qs_copy)], run.sent)
        Run(qs_copy) == Ran(qs_copy, get_results(qs_copy, i, kwargs, cond))
    IN  Run(Clone(w, i))

\* SolrQuerySet.query(**kwargs): the value returned is the new queryset
query(w, i, kwargs, cond) ==
    LET Ran(qs_copy, run) ==
            IF Raised(run.val) THEN Out(w, run.val, run.sent)
            ELSE Out(run.w, [qs |-> Last(qs_copy)], run.sent)
        Run(qs_copy) ==
            Ran(qs_copy, get_results(qs_copy, Last(qs_copy), kwargs, cond))
    IN  Run(Clone(w, i))

\* SolrQuerySet.__iter__
__iter__(w, i, cond) == get_results(w, i, EmptyDict, cond)

\* SolrQuerySet.__bool__
__bool__(w, i, cond) ==
    LET Tested(run) ==
            IF Raised(run.val) THEN run ELSE Out(run.w, B(Truthy(run.val)), run.sent)
    IN  Tested(get_results(w, i, EmptyDict, cond))

\* SolrQuerySet.set_limits, on queryset i
\* set_limits that leaves the start as it is when none is given
set_limits_keeping_start(w, i, start, stop) ==
    [w EXCEPT !.objs[i].start = IF start = None THEN w.objs[i].start ELSE start.int,
              !.objs[i].stop = stop]

\* set_limits that sets no stop
set_limits_open(w, i, start, stop) ==
    [w EXCEPT !.objs[i].start = IF start = None THEN 0 ELSE start.int,
              !.objs[i].stop = None]

set_limits(w, i, start, stop) ==
    [w EXCEPT !.objs[i].start = IF start = None THEN 0 ELSE start.int,
              !.objs[i].stop = stop]

\* AliasedSolrQuerySet.get_facets: the sections of the dict the base method
\* returned are assigned re-keyed; with a populated cache that dict is the
\* cached response's own
Aliased_get_facets(w, i, cond) ==
    LET Key(field) == GetOrSelf(reverse_aliases(w.objs[i].cls), field)
        Assigned(run, rekeyed) ==
            IF w.objs[i]._result_cache # None
            THEN Out([run.w EXCEPT !.objs[i]._result_cache.facet_counts = rekeyed],
                     D(rekeyed), run.sent)
            ELSE Out(run.w, D(rekeyed), run.sent)
        Unaliased(run, facets) ==
            IF ~ ({"facet_fields", "facet_ranges"} \subseteq DOMAIN facets)
            THEN Out(run.w, Raise("KeyError"), run.sent)
            ELSE Assigned(run,
                          [s \in DOMAIN facets |->
                              IF s \in {"facet_fields", "facet_ranges"}
                              THEN Rekeyed(facets[s],
                                           [o \in DOMAIN facets[s] |-> Key(o)])
                              ELSE facets[s]])
        Got(run) == IF Raised(run.val) THEN run ELSE Unaliased(run, run.val.dict)
    IN  Got(get_facets(w, i, cond))

\* get_stats on an alias queryset: the fields of the stats_fields section
\* are keyed by their aliases; a result with no such section is returned as
\* the base method gave it
Aliased_get_stats(w, i, cond) ==
    LET Key(field) == GetOrSelf(reverse_aliases(w.objs[i].cls), field)
        Unaliased(run, found) ==
            IF ~ HasKey(found, "stats_fields") THEN run
            ELSE Out(run.w,
                     D([found EXCEPT !["stats_fields"] =
                           Rekeyed(@, [o \in DOMAIN @ |-> Key(o)])]),
                     run.sent)
        Got(run) == IF Raised(run.val) THEN run ELSE Unaliased(run, run.val.dict)
    IN  Got(get_stats(w, i, cond))

\* get_highlighting on an alias queryset: within each document the fields
\* are keyed by their aliases
Aliased_get_highlighting(w, i, cond) ==
    LET Key(field) == GetOrSelf(reverse_aliases(w.objs[i].cls), field)
        Unaliased(run, highlights) ==
            Out(run.w,
                D([doc \in DOMAIN highlights |->
                      Rekeyed(highlights[doc],
                              [o \in DOMAIN highlights[doc] |-> Key(o)])]),
                run.sent)
        Got(run) == IF Raised(run.val) THEN run ELSE Unaliased(run, run.val.dict)
    IN  Got(get_highlighting(w, i, cond))

(***************************************************************************)
(* SolrQuerySet.__getitem__.  A key is I(n), a slice [slice |-> <<start,    *)
(* stop, step>>] whose parts are None or I(n), or a value of another type.  *)
(***************************************************************************)
Slice(start, stop, step) == [slice |-> <<start, stop, step>>]
IsSlice(k) == DOMAIN k = {"slice"}

\* a slice that takes every element whatever the step
PySlice_unstepped(seq, start, stop, step) ==
    LET lo == IF start = None THEN 0 ELSE IF start.int < Len(seq) THEN start.int ELSE Len(seq)
        hi == IF stop = None THEN Len(seq) ELSE IF stop.int < Len(seq) THEN stop.int ELSE Len(seq)
    IN  [m \in 1..(IF hi > lo THEN hi - lo ELSE 0) |-> seq[lo + m]]

\* seq[start:stop:step] for bounds that are None or not negative and a step
\* that is None or positive
PySlice(seq, start, stop, step) ==
    LET lo == IF start = None THEN 0 ELSE Min(start.int, Len(seq))
        hi == IF stop = None THEN Len(seq) ELSE Min(stop.int, Len(seq))
        st == IF step = None THEN 1 ELSE step.int
        n  == IF hi > lo THEN (hi - lo + st - 1) \div st ELSE 0
    IN  [m \in 1..n |-> seq[lo + (m - 1) * st + 1]]

\* the assertion on the key
\* an assertion that lets every key through
KeyAllowed_unchecked(k) == TRUE

KeyAllowed(k) ==
    \/ ~ IsSlice(k) /\ k.int >= 0
    \/ /\ IsSlice(k)
       /\ (k.slice[1] = None \/ k.slice[1].int >= 0)
       /\ (k.slice[2] = None \/ k.slice[2].int >= 0)

\* list(qs_copy): the iterator is taken first (get_results), then the length
\* hint is asked (__len__), which queries again when the cache is still empty
ListOf(w, c, cond) ==
    LET Hinted(it, n) ==
            IF Raised(it.val) THEN it
            ELSE IF Raised(n.val) THEN Out(n.w, n.val, it.sent \o n.sent)
            ELSE Out(n.w, it.val, it.sent \o n.sent)
        Iterated(it) == Hinted(it, __len__(it.w, c, cond))
    IN  Iterated(__iter__(w, c, cond))

__getitem__(w, i, k, cond) ==
    LET cache == w.objs[i]._result_cache
        \* list(qs_copy)[:: k.step]
        Stepped(run) ==
            IF Raised(run.val) THEN Out(w, run.val, run.sent)
            ELSE Out(w, L(PySlice(run.val.list, None, None, k.slice[3])), run.sent)
        \* qs_copy.get_results()[0]
        Item(run) ==
            IF Raised(run.val) THEN Out(w, run.val, run.sent)
            ELSE IF run.val.list = <<>> THEN Out(w, Raise("IndexError"), run.sent)
            ELSE Out(w, run.val.list[1], run.sent)
        \* the clone with its limits set: returned as it is, or listed
        Limited(lazy) ==
            IF Truthy(k.slice[3]) THEN Stepped(ListOf(lazy, Last(lazy), cond))
            ELSE Out(lazy, [qs |-> Last(lazy)], <<>>)
        Sliced(w1) == Limited(set_limits(w1, Last(w1), k.slice[1], k.slice[2]))
        Single(w1) ==
            Item(get_results(set_limits(w1, Last(w1), k, I(k.int + 1)),
                             Last(w1), EmptyDict, cond))
    IN  IF ~ (IsInt(k) \/ IsSlice(k)) THEN Out(w, Raise("TypeError"), <<>>)
        ELSE IF ~ KeyAllowed(k) THEN Out(w, Raise("AssertionError"), <<>>)
        ELSE IF cache # None
        THEN IF IsSlice(k)
             THEN Out(w, L(PySlice(cache.docs, k.slice[1], k.slice[2], k.slice[3])), <<>>)
             ELSE IF k.int < Len(cache.docs) THEN Out(w, cache.docs[k.int + 1], <<>>)
             ELSE Out(w, Raise("IndexError"), <<>>)
        ELSE IF IsSlice(k) THEN Sliced(Clone(w, i))
        ELSE Single(Clone(w, i))

(***************************************************************************)
(* The state machine: one action per public method, called on any queryset  *)
(* created so far with arguments drawn from small sets.                     *)
(***************************************************************************)
Init ==
    /\ heap = ClassHeap
    /\ objs = <<>>
    /\ compiled = None
    /\ threads = <<>>
    /\ term = None

Builders == DOMAIN objs

\* the program continues in world w
Becomes(w) ==
    /\ Len(w.objs) <= MaxBuilders
    /\ heap' = w.heap
    /\ objs' = w.objs
    /\ UNCHANGED <<compiled, term, threads>>

\* a directive returned: the new queryset is the one created last
Returned(w) ==
    /\ Len(objs) < MaxBuilders
    /\ Becomes(w)

\* an execution method returned or raised
Executed(r) == Becomes(r.w)

Construct(cls) ==
    /\ Len(objs) < MaxBuilders
    /\ Becomes(New(World, cls))

FilterArgs ==
    {[args |-> <<"date:[1 TO 2]">>, tag |-> "t", kwargs |-> <<<<"name", S("x")>>>>]}

Filter(i) ==
    \E a \in FilterArgs :
        Returned(IF IsAliased(World, i)
                 THEN Aliased_filter(World, i, a.args, a.tag, a.kwargs)
                 ELSE filter(World, i, a.args, a.tag, a.kwargs))

Search(i) ==
    \E a \in {[args |-> <<"x">>, kwargs |-> <<>>]} :
        Returned(IF IsAliased(World, i) THEN Aliased_search(World, i, a.args, a.kwargs)
                 ELSE search(World, i, a.args, a.kwargs))

OrderBy(i) ==
    \E args \in {<<"-year">>} :
        Returned(IF IsAliased(World, i) THEN Aliased_order_by(World, i, args)
                 ELSE order_by(World, i, args))

Facet(i) ==
    \E a \in {[args |-> <<"year">>, kwargs |-> <<<<"sort", S("count")>>>>]} :
        Returned(IF IsAliased(World, i) THEN Aliased_facet(World, i, a.args, a.kwargs)
                 ELSE facet(World, i, a.args, a.kwargs))

FacetField(i) ==
    \E a \in {[field |-> "name", exclude |-> "t", kwargs |-> <<<<"missing", B(TRUE)>>>>]} :
        Returned(IF IsAliased(World, i)
                 THEN Aliased_facet_field(World, i, a.field, a.exclude, a.kwargs)
                 ELSE facet_field(World, i, a.field, a.exclude, a.kwargs))

FacetRange(i) ==
    \E a \in {[field |-> "year_i", kwargs |-> <<<<"gap", I(10)>>>>]} :
        Returned(facet_range(World, i, a.field, a.kwargs))

Stats(i) ==
    \E a \in {[args |-> <<"year_i">>, kwargs |-> <<<<"calcdistinct", B(TRUE)>>>>]} :
        Returned(stats(World, i, a.args, a.kwargs))

Only(i) ==
    \E a \in {[args |-> <<"name">>, kwargs |-> <<>>]} :
        Returned(IF IsAliased(World, i)
                 THEN Aliased_only(World, i, a.args, TRUE, a.kwargs)
                 ELSE only(World, i, a.args, TRUE, a.kwargs))

\* also(...) is self.only(..., replace=False, ...)
Also(i) ==
    \E a \in {[args |-> <<"id">>, kwargs |-> <<>>]} :
        Returned(IF IsAliased(World, i)
                 THEN Aliased_only(World, i, a.args, FALSE, a.kwargs)
                 ELSE only(World, i, a.args, FALSE, a.kwargs))

Highlight(i) ==
    \E a \in {[field |-> "name", kwargs |-> <<<<"snippets", I(3)>>>>]} :
        Returned(IF IsAliased(World, i) THEN Aliased_highlight(World, i, a.field, a.kwargs)
                 ELSE highlight(World, i, a.field, a.kwargs))

Group(i) ==
    \E a \in {[field |-> "year", kwargs |-> <<<<"limit", I(3)>>>>]} :
        Returned(IF IsAliased(World, i) THEN Aliased_group(World, i, a.field, a.kwargs)
                 ELSE group(World, i, a.field, a.kwargs))

RawQueryParameters(i) ==
    \E kwargs \in {<<<<"rows", I(1)>>>>} :
        Returned(raw_query_parameters(World, i, kwargs))

All(i) == Returned(all(World, i))

NoneOf(i) == Returned(none(World, i))

\* the conditions the calls of a run meet.  Every state a call can lead to
\* under Conditions it leads to under one of these: a 404 leaves the state as
\* a failed connection does (the call raises), an error status in the body
\* as a 500 does (the transport returns None).
Met == {c \in Conditions : c.status # HttpNotFound /\ c.solr_status = 0}

\* keyword arguments of get_results and query
Overrides == {EmptyDict, "q" :> S("name:y")}

GetResults(i) ==
    \E kwargs \in Overrides, cond \in Met :
        Executed(get_results(World, i, kwargs, cond))

Query(i) ==
    /\ Len(objs) < MaxBuilders
    /\ \E kwargs \in Overrides, cond \in Met :
           Executed(query(World, i, kwargs, cond))

Count(i) ==
    \E cond \in Met : Executed(count(World, i, cond))

GetFacets(i) ==
    \E cond \in Met :
        Executed(IF IsAliased(World, i) THEN Aliased_get_facets(World, i, cond)
                 ELSE get_facets(World, i, cond))

GetStats(i) ==
    \E cond \in Met :
        Executed(IF IsAliased(World, i) THEN Aliased_get_stats(World, i, cond)
                 ELSE get_stats(World, i, cond))

GetHighlighting(i) ==
    \E cond \in Met :
        Executed(IF IsAliased(World, i) THEN Aliased_get_highlighting(World, i, cond)
                 ELSE get_highlighting(World, i, cond))

GetExpanded(i) ==
    \E cond \in Met : Executed(get_expanded(World, i, cond))

Iter(i) ==
    \E cond \in Met : Executed(__iter__(World, i, cond))

Bool(i) ==
    \E cond \in Met : Executed(__bool__(World, i, cond))

Keys == {I(0), I(-1), S("a"), Slice(I(1), None, None), Slice(None, I(2), I(2))}

GetItem(i) ==
    \E k \in Keys, cond \in Met :
        Executed(__getitem__(World, i, k, cond))

Directive(i) ==
    \/ Filter(i)
    \/ Search(i)
    \/ OrderBy(i)
    \/ Facet(i)
    \/ FacetField(i)
    \/ FacetRange(i)
    \/ Stats(i)
    \/ Only(i)
    \/ Also(i)
    \/ Highlight(i)
    \/ Group(i)
    \/ RawQueryParameters(i)
    \/ All(i)
    \/ NoneOf(i)

Execution(i) ==
    \/ GetResults(i)
    \/ Query(i)
    \/ Count(i)
    \/ GetFacets(i)
    \/ GetStats(i)
    \/ GetHighlighting(i)
    \/ GetExpanded(i)
    \/ Iter(i)
    \/ Bool(i)
    \/ GetItem(i)

Call ==
    \/ \E i \in Builders : Directive(i)
    \/ \E i \in Builders : Execution(i)

\* a program working with SolrQuerySet
Next ==
    \/ Construct(BaseCls)
    \/ Call

Spec == Init /\ [][Next]_vars

\* a program working with the subclass MyAliasedSolrQuerySet
NextAliased ==
    \/ Construct(AliasCls)
    \/ Call

SpecAliased == Init /\ [][NextAliased]_vars

(***************************************************************************)
(* query_opts as a function of the query state: a queryset in any state the *)
(* directives and slicing can produce, compiled once.                       *)
(***************************************************************************)
\* start and stop as set_limits leaves them: untouched, [0:0], [1:2], [2:]
Windows ==
    {[start |-> 0, stop |-> None], [start |-> 0, stop |-> I(0)],
     [start |-> 1, stop |-> I(2)], [start |-> 2, stop |-> None]}

\* the group field and its options: no group(), group(f), group(f, limit=3)
Groupings ==
    {[group_field |-> None, group_opts |-> EmptyDict],
     [group_field |-> S("year_i"), group_opts |-> EmptyDict],
     [group_field |-> S("year_i"), group_opts |-> "group.limit" :> I(3)]}

\* highlight fields and their options: highlight() always adds a field
Highlights ==
    {[highlight_fields |-> <<>>, highlight_opts |-> EmptyDict],
     [highlight_fields |-> <<"name_t">>, highlight_opts |-> "f.name_t.hl.snippets" :> I(3)]}

QueryStates ==
    [window             : Windows,
     grouping           : Groupings,
     highlighting       : Highlights,
     search_qs          : {<<>>, <<"x">>},
     filter_qs          : {<<>>, <<"name_t:x">>},
     sort_options       : {<<>>, <<"year_i desc">>},
     field_list         : {<<>>, <<"name_t">>},
     facet_field_list   : {<<>>, <<"year_i">>},
     range_facet_fields : {<<>>, <<"year_i">>},
     facet_opts         : {EmptyDict, "sort" :> S("count")},
     stats_field_list   : {<<>>, <<"year_i">>},
     stats_opts         : {EmptyDict, "calcdistinct" :> B(TRUE)},
     raw_params         : {EmptyDict}]

\* the content of attribute attr in query state qs
CellOf(qs, attr) ==
    LET v == CASE attr = "group_opts" -> qs.grouping.group_opts
               [] attr = "highlight_fields" -> qs.highlighting.highlight_fields
               [] attr = "highlight_opts" -> qs.highlighting.highlight_opts
               [] attr = "raw_params" -> qs.raw_params
               [] OTHER -> qs[attr]
    IN  IF attr \in ListAttrs THEN L(v) ELSE D(v)

\* one queryset in query state qs, each attribute in a cell of its own
InState(qs) ==
    [heap |-> ClassHeap \o [k \in DOMAIN ClassAttrs |-> CellOf(qs, ClassAttrs[k])],
     objs |-> <<[cls |-> BaseCls, start |-> qs.window.start, stop |-> qs.window.stop,
                 group_field |-> qs.grouping.group_field, _result_cache |-> None,
                 ref |-> [a \in Attrs |-> Len(ClassAttrs) + DefaultAddr(a)]]>>]

InitCompile ==
    \E qs \in QueryStates :
        /\ heap = InState(qs).heap
        /\ objs = InState(qs).objs
        /\ compiled = None
        /\ threads = <<>>
        /\ term = None

\* opts = qs.query_opts()
Compile ==
    /\ compiled = None
    /\ compiled' = D(query_opts(World, objs[1]))
    /\ UNCHANGED <<heap, objs, term, threads>>

NextCompile == Compile

SpecCompile == InitCompile /\ [][NextCompile]_vars

(***************************************************************************)
(* get_results on a queryset with raw parameters: a queryset in a state     *)
(* search, filter, order_by, slicing and raw_query_parameters can produce,  *)
(* executed with keyword arguments.                                         *)
(***************************************************************************)
\* what raw_query_parameters(**kwargs) leaves: nothing, a query and a row
\* limit, an empty string, an empty list
RawParams ==
    {EmptyDict,
     ("q" :> S("id:1")) @@ ("rows" :> I(1)),
     "q" :> S(""),
     "fq" :> L(<<>>)}

SendStates ==
    [window             : {[start |-> 0, stop |-> None], [start |-> 1, stop |-> I(2)]},
     grouping           : {[group_field |-> None, group_opts |-> EmptyDict]},
     highlighting       : {[highlight_fields |-> <<>>, highlight_opts |-> EmptyDict]},
     search_qs          : {<<>>, <<"x">>},
     filter_qs          : {<<>>, <<"name_t:x">>},
     sort_options       : {<<>>, <<"year_i desc">>},
     field_list         : {<<>>},
     facet_field_list   : {<<>>},
     range_facet_fields : {<<>>},
     facet_opts         : {EmptyDict},
     stats_field_list   : {<<>>},
     stats_opts         : {EmptyDict},
     raw_params         : RawParams]

InitSend ==
    \E qs \in SendStates :
        /\ heap = InState(qs).heap
        /\ objs = InState(qs).objs
        /\ compiled = None
        /\ threads = <<>>
        /\ term = None

NextSend == \E i \in Builders : GetResults(i)

SpecSend == InitSend /\ [][NextSend]_vars

(***************************************************************************)
(* Chains of the directives that set the field list, the facet fields and   *)
(* options and the grouping, started on a queryset that has some already.   *)
(***************************************************************************)
ChainStates ==
    [window             : {[start |-> 0, stop |-> None]},
     grouping           : Groupings,
     highlighting       : {[highlight_fields |-> <<>>, highlight_opts |-> EmptyDict]},
     search_qs          : {<<>>},
     filter_qs          : {<<>>},
     sort_options       : {<<>>},
     field_list         : {<<>>, <<"name_t">>},
     facet_field_list   : {<<>>, <<"year_i">>},
     range_facet_fields : {<<>>},
     facet_opts         : {EmptyDict, "sort" :> S("index"), "mincount" :> I(1)},
     stats_field_list   : {<<>>},
     stats_opts         : {EmptyDict},
     raw_params         : {EmptyDict}]

InitChain ==
    /\ \E qs \in ChainStates :
           /\ heap = InState(qs).heap
           /\ objs = InState(qs).objs
    /\ compiled = None
    /\ threads = <<>>
    /\ term = None

NextChain ==
    \E i \in Builders :
        \/ Only(i)
        \/ Also(i)
        \/ Facet(i)
        \/ FacetField(i)
        \/ Group(i)

SpecChain == InitChain /\ [][NextChain]_vars

(***************************************************************************)
(* Indexing and slicing a queryset, before and after it was executed.       *)
(***************************************************************************)
IndexStates ==
    [window             : {[start |-> 0, stop |-> None], [start |-> 1, stop |-> I(2)]},
     grouping           : {[group_field |-> None, group_opts |-> EmptyDict]},
     highlighting       : {[highlight_fields |-> <<>>, highlight_opts |-> EmptyDict]},
     search_qs          : {<<>>, <<"x">>},
     filter_qs          : {<<>>, <<"name_t:x">>},
     sort_options       : {<<>>},
     field_list         : {<<>>},
     facet_field_list   : {<<>>},
     range_facet_fields : {<<>>},
     facet_opts         : {EmptyDict},
     stats_field_list   : {<<>>},
     stats_opts         : {EmptyDict},
     raw_params         : {EmptyDict, "fq" :> L(<<>>)}]

\* keys given to __getitem__: integers, a string, slices without and with a
\* step, negative ones among them
IndexKeys ==
    {I(0), I(1), I(2), I(-1), S("a"),
     Slice(I(1), None, None), Slice(None, I(2), None), Slice(I(1), I(2), None),
     Slice(I(-1), None, None), Slice(None, I(-2), None), Slice(None, I(2), I(2)),
     Slice(None, None, I(2)), Slice(I(1), None, I(3)), Slice(I(1), I(4), I(2))}

InitIndex ==
    /\ \E qs \in IndexStates :
           /\ heap = InState(qs).heap
           /\ objs = InState(qs).objs
    /\ compiled = None
    /\ threads = <<>>
    /\ term = None

\* qs[k]
Index(i) ==
    \E k \in IndexKeys, cond \in Met :
        Executed(__getitem__(World, i, k, cond))

NextIndex ==
    \E i \in Builders :
        \/ GetResults(i)
        \/ Index(i)

SpecIndex == InitIndex /\ [][NextIndex]_vars

(***************************************************************************)
(* The directives of an alias queryset, started on one that has terms, sort *)
(* options and a field list of its own, next to those of a queryset of the  *)
(* base class in the same state.                                            *)
(***************************************************************************)
\* one alias queryset in query state qs
InAliasState(qs) == [InState(qs) EXCEPT !.objs[1].cls = AliasCls]

AliasStates ==
    [window             : {[start |-> 0, stop |-> None]},
     grouping           : {[group_field |-> None, group_opts |-> EmptyDict]},
     highlighting       : {[highlight_fields |-> <<>>, highlight_opts |-> EmptyDict]},
     search_qs          : {<<>>, <<"x">>},
     filter_qs          : {<<>>, <<"name_t:x">>},
     sort_options       : {<<>>, <<"name_t asc">>},
     field_list         : {<<"name:name_t", "year:year_i">>, <<"id">>, <<>>},
     facet_field_list   : {<<>>},
     range_facet_fields : {<<>>},
     facet_opts         : {EmptyDict},
     stats_field_list   : {<<>>},
     stats_opts         : {EmptyDict},
     raw_params         : {EmptyDict}]

InitAlias ==
    /\ \E qs \in AliasStates, cls \in {AliasCls, BaseCls} :
           /\ heap = InState(qs).heap
           /\ objs = IF cls = AliasCls THEN InAliasState(qs).objs ELSE InState(qs).objs
    /\ compiled = None
    /\ threads = <<>>
    /\ term = None

NextAlias ==
    \E i \in Builders :
        \/ Filter(i)
        \/ Search(i)
        \/ OrderBy(i)
        \/ Only(i)
        \/ Also(i)

SpecAlias == InitAlias /\ [][NextAlias]_vars

(***************************************************************************)
(* The accessors of an alias queryset that facets, takes statistics and     *)
(* highlights on aliased and unaliased fields.                              *)
(***************************************************************************)
AccessStates ==
    [window             : {[start |-> 0, stop |-> None], [start |-> 1, stop |-> I(2)]},
     grouping           : {[group_field |-> None, group_opts |-> EmptyDict]},
     highlighting       : {[highlight_fields |-> <<>>, highlight_opts |-> EmptyDict],
                           [highlight_fields |-> <<"name_t", "text">>,
                            highlight_opts |-> EmptyDict]},
     search_qs          : {<<"x">>},
     filter_qs          : {<<>>},
     sort_options       : {<<>>},
     field_list         : {<<"name:name_t", "year:year_i">>},
     facet_field_list   : {<<>>, <<"name_t", "type">>},
     range_facet_fields : {<<>>, <<"year_i", "birth">>},
     facet_opts         : {EmptyDict},
     stats_field_list   : {<<>>, <<"year_i", "birth">>},
     stats_opts         : {EmptyDict},
     raw_params         : {EmptyDict}]

InitAccess ==
    /\ \E qs \in AccessStates :
           /\ heap = InAliasState(qs).heap
           /\ objs = InAliasState(qs).objs
    /\ compiled = None
    /\ threads = <<>>
    /\ term = None

NextAccess ==
    \E i \in Builders :
        \/ GetResults(i)
        \/ GetFacets(i)
        \/ GetStats(i)
        \/ GetHighlighting(i)

SpecAccess == InitAccess /\ [][NextAccess]_vars

(***************************************************************************)
(* One queryset, of the base class or an alias queryset, executed with and  *)
(* without keyword arguments, given new limits, counted and asked for its   *)
(* facets, in any order.                                                    *)
(***************************************************************************)
CacheStates ==
    [window             : {[start |-> 0, stop |-> None]},
     grouping           : {[group_field |-> None, group_opts |-> EmptyDict]},
     highlighting       : {[highlight_fields |-> <<>>, highlight_opts |-> EmptyDict]},
     search_qs          : {<<>>, <<"x">>},
     filter_qs          : {<<>>, <<"name_t:x">>},
     sort_options       : {<<>>},
     field_list         : {<<>>},
     facet_field_list   : {<<>>, <<"name_t", "type">>},
     range_facet_fields : {<<>>},
     facet_opts         : {EmptyDict},
     stats_field_list   : {<<>>},
     stats_opts         : {EmptyDict},
     raw_params         : {EmptyDict}]

\* arguments of set_limits
Limits == {[start |-> None, stop |-> None], [start |-> I(1), stop |-> I(3)]}

InitCache ==
    /\ \E qs \in CacheStates, cls \in {AliasCls, BaseCls} :
           /\ heap = InState(qs).heap
           /\ objs = IF cls = AliasCls THEN InAliasState(qs).objs ELSE InState(qs).objs
    /\ compiled = None
    /\ term = None
    /\ threads = <<>>

\* qs.set_limits(start, stop)
SetLimits(i) ==
    \E lim \in Limits : Becomes(set_limits(World, i, lim.start, lim.stop))

NextCache ==
    \E i \in Builders :
        \/ GetResults(i)
        \/ SetLimits(i)
        \/ Count(i)
        \/ GetFacets(i)

SpecCache == InitCache /\ [][NextCache]_vars

(***************************************************************************)
(* Two threads in get_results on one queryset.  A thread runs the method's  *)
(* statements one at a time: the request, the assignment of the cache, the  *)
(* test of the cache, the read of its documents; between any two of them    *)
(* the other thread may run.  A second queryset, a clone, stands by.        *)
(***************************************************************************)
Threads == {1, 2}

ThreadStates ==
    [window             : {[start |-> 0, stop |-> None], [start |-> 1, stop |-> I(2)]},
     grouping           : {[group_field |-> None, group_opts |-> EmptyDict]},
     highlighting       : {[highlight_fields |-> <<>>, highlight_opts |-> EmptyDict]},
     search_qs          : {<<>>, <<"x">>},
     filter_qs          : {<<>>},
     sort_options       : {<<>>},
     field_list         : {<<>>},
     facet_field_list   : {<<>>},
     range_facet_fields : {<<>>},
     facet_opts         : {EmptyDict},
     stats_field_list   : {<<>>},
     stats_opts         : {EmptyDict},
     raw_params         : {EmptyDict}]

\* keyword arguments of the two calls
ThreadArgs == {EmptyDict, "rows" :> I(1)}

\* what the request of a thread meets: a response, or an error status, for
\* which the transport returns None
ThreadConditions == {c \in Met : c.net = "up"}

InitThreads ==
    /\ \E qs \in ThreadStates :
           /\ heap = all(InState(qs), 1).heap
           /\ objs = all(InState(qs), 1).objs
    /\ compiled = None
    /\ term = None
    /\ threads = [t \in Threads |-> [pc |-> "call", result |-> None, val |-> None]]

\* query_opts = self.query_opts(); query_opts.update(**kwargs);
\* self.solr.query(**query_opts), its value not yet assigned
Request(t) ==
    /\ threads[t].pc = "call"
    /\ \E kwargs \in ThreadArgs, cond \in ThreadConditions :
           threads' = [threads EXCEPT
                          ![t].pc = "assign",
                          ![t].result = solr_query(Update(query_opts(World, objs[1]),
                                                          kwargs), cond)]
    /\ UNCHANGED <<heap, objs, compiled, term>>

\* self._result_cache = <the value of the call>
Assign(t) ==
    /\ threads[t].pc = "assign"
    /\ objs' = [objs EXCEPT ![1]._result_cache = threads[t].result]
    /\ threads' = [threads EXCEPT ![t].pc = "test"]
    /\ UNCHANGED <<heap, compiled, term>>

\* if self._result_cache: ... ; return []
Test(t) ==
    /\ threads[t].pc = "test"
    /\ threads' = IF objs[1]._result_cache # None
                  THEN [threads EXCEPT ![t].pc = "read"]
                  ELSE [threads EXCEPT ![t].pc = "done", ![t].val = L(<<>>)]
    /\ UNCHANGED <<heap, objs, compiled, term>>

\* return [doc.as_dict() for doc in self._result_cache.docs]
ReadDocs(t) ==
    /\ threads[t].pc = "read"
    /\ threads' = IF objs[1]._result_cache = None
                  THEN [threads EXCEPT ![t].pc = "done",
                                       ![t].val = Raise("AttributeError")]
                  ELSE [threads EXCEPT ![t].pc = "done",
                                       ![t].val = L(objs[1]._result_cache.docs)]
    /\ UNCHANGED <<heap, objs, compiled, term>>

NextThreads ==
    \E t \in Threads :
        \/ Request(t)
        \/ Assign(t)
        \/ Test(t)
        \/ ReadDocs(t)

SpecThreads == InitThreads /\ [][NextThreads]_vars

(***************************************************************************)
(* _lookup_to_filter called directly, as the static method it is, with      *)
(* arguments drawn from the keys, values and tags below.                    *)
(***************************************************************************)
\* the longest list of values given to an in lookup
MaxValues == 3

\* lists of at most n values: strings, and the two values that stand for
\* "field not set"
RECURSIVE ValueLists(_)
ValueLists(n) ==
    IF n = 0 THEN {<<>>}
    ELSE ValueLists(n - 1)
         \cup {Append(vs, v) : vs \in {l \in ValueLists(n - 1) : Len(l) = n - 1},
                               v \in {S(""), None, S("a"), S("b")}}

\* key and value of a call: no lookup, in, exists, range and a lookup that is
\* none of them
LookupCalls ==
    [key : {"type"}, value : {S("v"), I(1)}]
    \cup [key : {"type__in"}, value : {L(vs) : vs \in ValueLists(MaxValues)}]
    \cup [key : {"type__exists"}, value : {B(TRUE), B(FALSE)}]
    \cup [key : {"year__range"},
          value : {[pair |-> <<I(1), I(2)>>], [pair |-> <<None, I(2)>>],
                   [pair |-> <<I(1), None>>]}]
    \cup [key : {"type__other"}, value : {S("v"), I(1)}]

LookupTags == {"", "t"}

InitLookup ==
    /\ heap = ClassHeap
    /\ objs = <<>>
    /\ compiled = None
    /\ threads = <<>>
    /\ \E c \in LookupCalls, tag \in LookupTags :
           term = [key |-> c.key, value |-> c.value, tag |-> tag, query |-> None]

\* query = SolrQuerySet._lookup_to_filter(key, value, tag=tag)
Translate ==
    /\ term.query = None
    /\ term' = [term EXCEPT !.query = S(_lookup_to_filter(term.key, term.value, term.tag))]
    /\ UNCHANGED <<heap, objs, compiled, threads>>

NextLookup == Translate

SpecLookup == InitLookup /\ [][NextLookup]_vars

(***************************************************************************)
(* QueryResponse built from a response body whose facet counts are drawn    *)
(* from the flat arrays below: one facet field and one range facet.         *)
(***************************************************************************)
\* the most values a facet of the body has
MaxPairs == 2

\* flat arrays [value, count, ...] of at most n pairs: Solr lists a value
\* of a facet once
RECURSIVE FlatArrays(_, _)
FlatArrays(values, n) ==
    IF n = 0 THEN {<<>>}
    ELSE FlatArrays(values, n - 1)
         \cup UNION {{flat \o <<v, I(c)>> :
                        v \in {u \in values : \A k \in DOMAIN flat : flat[k] # u},
                        c \in {1, 2}} :
                     flat \in {f \in FlatArrays(values, n - 1) : Len(f) = 2 * (n - 1)}}

\* the body of a select response with facets
FacetBody(field, range) ==
    [params       |-> EmptyDict,
     numFound     |-> 0,
     docs         |-> <<>>,
     facet_counts |-> [s \in {"facet_queries", "facet_fields", "facet_ranges"} |->
                         IF s = "facet_fields" THEN "type" :> field
                         ELSE IF s = "facet_ranges"
                         THEN "year_i" :> [counts |-> range, gap |-> 20]
                         ELSE EmptyDict],
     stats        |-> None,
     highlighting |-> None,
     expanded     |-> None]

InitFacet ==
    /\ heap = ClassHeap
    /\ objs = <<>>
    /\ compiled = None
    /\ threads = <<>>
    /\ \E field \in FlatArrays({S("x"), S("y"), S("z")}, MaxPairs),
          range \in FlatArrays({S("1900"), S("1920"), S("1940")}, MaxPairs) :
           term = [body |-> FacetBody(field, range), response |-> None]

\* response = QueryResponse(body)
Wrap ==
    /\ term.response = None
    /\ term' = [term EXCEPT !.response = QueryResponse(term.body)]
    /\ UNCHANGED <<heap, objs, compiled, threads>>

NextFacet == Wrap

SpecFacet == InitFacet /\ [][NextFacet]_vars

(***************************************************************************)
(* Properties.                                                              *)
(***************************************************************************)
\* the query state of queryset i in world w, references followed
QueryState(w, i) ==
    [start       |-> w.objs[i].start,
     stop        |-> w.objs[i].stop,
     group_field |-> w.objs[i].group_field,
     cells       |-> [a \in Attrs |-> w.heap[w.objs[i].ref[a]]]]

\* the query state of a queryset nothing was ever asked of
Pristine ==
    [start       |-> 0,
     stop        |-> None,
     group_field |-> None,
     cells       |-> [a \in Attrs |-> IF a \in ListAttrs THEN L(<<>>) ELSE D(EmptyDict)]]

\* every attribute of queryset j resolves to the class-level object, as the
\* constructor of SolrQuerySet leaves it
Fresh(w, j) == \A a \in Attrs : w.objs[j].ref[a] = DefaultAddr(a)

\* the world before the last queryset and its n cells were created
Before(n) ==
    [heap |-> SubSeq(heap, 1, Len(heap) - n),
     objs |-> SubSeq(objs, 1, Len(objs) - 1)]

\* the queryset created last refers to the last n cells of the heap only: the
\* call that returned it was the last to create anything
Newest(n) ==
    /\ Len(objs) > 1
    /\ Len(heap) >= n + Len(ClassAttrs)
    /\ \A a \in Attrs : objs[Len(objs)].ref[a] > Len(heap) - n

\* the world after the step
WorldAfter == [heap |-> heap', objs |-> objs']

Cold(i) == objs[i]._result_cache = None
Warm(i) == objs[i]._result_cache # None

\* the transport returns no response: a status that is neither 200 nor 404,
\* or an error status in the body of a 200
Absent(cond) ==
    /\ cond.net = "up"
    /\ cond.status # HttpNotFound
    /\ ~ Succeeds(cond)

ClonedCells(w, j) == {w.objs[j].ref[CloneAttrs[n]] : n \in DOMAIN CloneAttrs}

\* C2: a queryset that is not as the constructor left it (one returned by a
\* directive, a slice or query()) refers, for every list and dict _clone
\* copies, to a cell of its own: one per attribute, none of them a class-level
\* default and none referred to by another queryset;
\* and _clone of any queryset yields cells different from the original's that
\* hold equal content.
C2_NoSharedCollections ==
    /\ \A j \in Builders :
           ~ Fresh(World, j) =>
               /\ Cardinality(ClonedCells(World, j)) = Len(CloneAttrs)
               /\ ClonedCells(World, j) \cap DOMAIN ClassHeap = {}
               /\ \A k \in Builders \ {j} :
                      ClonedCells(World, j) \cap ClonedCells(World, k) = {}
    /\ \A i \in Builders :
           LET w1 == _clone(World, i)
               c  == Last(w1)
           IN  \A n \in DOMAIN CloneAttrs :
                   /\ w1.objs[c].ref[CloneAttrs[n]] # objs[i].ref[CloneAttrs[n]]
                   /\ w1.heap[w1.objs[c].ref[CloneAttrs[n]]]
                          = heap[objs[i].ref[CloneAttrs[n]]]

\* a queryset with filters, whose clone has equal filters in another list
C2_Witness ==
    \E i \in Builders :
        LET w1 == _clone(World, i)
        IN  /\ ~ Fresh(World, i)
            /\ Get(World, objs[i], "filter_qs") # <<>>
            /\ Get(w1, w1.objs[Last(w1)], "filter_qs") = Get(World, objs[i], "filter_qs")
            /\ w1.objs[Last(w1)].ref["filter_qs"] # objs[i].ref["filter_qs"]

\* C3: the class-level default lists and dicts stay empty, every queryset the
\* constructor returned still has the query state it was constructed with,
\* and a queryset constructed now has it too, whatever was called before.
C3_IndependentBuilders ==
    /\ \A k \in DOMAIN ClassHeap : heap[k] = ClassHeap[k]
    /\ \A j \in Builders : Fresh(World, j) => QueryState(World, j) = Pristine
    /\ LET w1 == New(World, BaseCls) IN QueryState(w1, Last(w1)) = Pristine

\* a constructed queryset next to a queryset a directive returned, which has
\* another query state and has been executed
C3_Witness ==
    \E i, j \in Builders :
        /\ Fresh(World, i)
        /\ QueryState(World, i) = Pristine
        /\ ~ Fresh(World, j)
        /\ QueryState(World, j) # Pristine
        /\ Warm(j)

\* C4: a queryset that a step adds has an empty cache unless the step is
\* query() on a queryset that was there; a cache that goes from empty to
\* populated in a step does so by get_results on that queryset.
C4_CacheLifecycle ==
    [][/\ \A j \in DOMAIN objs' \ Builders :
              \/ objs'[j]._result_cache = None
              \/ \E i \in Builders, kwargs \in Overrides, cond \in Conditions :
                     WorldAfter = query(World, i, kwargs, cond).w
       /\ \A j \in Builders :
              Cold(j) /\ objs'[j]._result_cache # None =>
                  \E kwargs \in Overrides, cond \in Conditions :
                      WorldAfter = get_results(World, j, kwargs, cond).w]_vars

\* the state is the one filter() on queryset i has just produced, the cache
\* of queryset i was populated by then, and the queryset returned has an
\* empty cache
C4_Witness ==
    /\ Newest(Len(ClassAttrs))
    /\ \E i \in DOMAIN Before(Len(ClassAttrs)).objs, a \in FilterArgs :
           /\ World = filter(Before(Len(ClassAttrs)), i, a.args, a.tag, a.kwargs)
           /\ Warm(i)
           /\ Cold(Last(World))

\* C5: query(**kwargs) makes one transport call, with the parameters compiled
\* from the receiver updated by kwargs; unless the transport raises, it
\* returns a queryset that was not there before, in the receiver's query
\* state, whose cache is the response to that call; no queryset that was
\* there, the receiver among them, and no list or dict that was there changes.
C5_QueryExecutesClone ==
    \A i \in Builders, kwargs \in Overrides, cond \in Conditions :
        LET r    == query(World, i, kwargs, cond)
            opts == Update(query_opts(World, objs[i]), kwargs)
        IN  /\ r.sent = <<opts>>
            /\ SubSeq(r.w.objs, 1, Len(objs)) = objs
            /\ SubSeq(r.w.heap, 1, Len(heap)) = heap
            /\ ~ Raised(r.val) =>
                   /\ r.val.qs \notin Builders
                   /\ r.val.qs = Last(r.w)
                   /\ QueryState(r.w, r.val.qs) = QueryState(World, i)
                   /\ r.w.objs[r.val.qs]._result_cache = solr_query(opts, cond)
            /\ Succeeds(cond) =>
                   /\ ~ Raised(r.val)
                   /\ r.w.objs[r.val.qs]._result_cache.params = opts

\* the state is the one query(q="name:y") on queryset i has just produced:
\* the queryset returned holds the response to that query and queryset i has
\* an empty cache
C5_Witness ==
    /\ Newest(Len(ClassAttrs))
    /\ \E i \in DOMAIN Before(Len(ClassAttrs)).objs, cond \in Conditions :
           /\ World = query(Before(Len(ClassAttrs)), i, "q" :> S("name:y"), cond).w
           /\ Cold(i)
           /\ Warm(Last(World))
           /\ objs[Last(World)]._result_cache.params["q"] = S("name:y")

\* C6 as the specification states it: whatever failure the transport meets,
\* get_results returns an empty list and count, on an empty cache, returns 0.
C6_NeverRaises ==
    \A i \in Builders, kwargs \in Overrides, cond \in Conditions :
        ~ Succeeds(cond) =>
            /\ get_results(World, i, kwargs, cond).val = L(<<>>)
            /\ Cold(i) => count(World, i, cond).val = I(0)

\* C6: when the transport returns no response (a status other than 200 and
\* 404, or an error status in the body), get_results returns an empty list
\* and count, on an empty cache, returns 0; a 404 raises
\* SolrConnectionNotFound and a failed connection raises ConnectionError,
\* out of both.
C6_AbsentResponseIsEmpty ==
    \A i \in Builders, kwargs \in Overrides, cond \in Conditions :
        LET r == get_results(World, i, kwargs, cond)
            n == count(World, i, cond)
            exc == IF cond.net = "down" THEN Raise("ConnectionError")
                   ELSE Raise("SolrConnectionNotFound")
        IN  /\ Absent(cond) =>
                /\ r.val = L(<<>>)
                /\ Cold(i) => n.val = I(0)
            /\ ~ Absent(cond) /\ ~ Succeeds(cond) =>
                /\ r.val = exc
                /\ Cold(i) => n.val = exc

\* a queryset with filters and an empty cache, for which a 500 gives an empty
\* list and a count of 0
C6_Witness ==
    \E i \in Builders, cond \in Conditions :
        /\ Get(World, objs[i], "filter_qs") # <<>>
        /\ Cold(i)
        /\ Absent(cond)
        /\ get_results(World, i, EmptyDict, cond).val = L(<<>>)
        /\ count(World, i, cond).val = I(0)

\* C7 as the specification states it: on an empty cache, when the transport
\* returns no response, each accessor returns an empty dict.
C7_AccessorsReturnEmpty ==
    \A i \in Builders, cond \in Conditions :
        Cold(i) /\ Absent(cond) =>
            /\ get_facets(World, i, cond).val = D(EmptyDict)
            /\ get_stats(World, i, cond).val = D(EmptyDict)
            /\ get_highlighting(World, i, cond).val = D(EmptyDict)
            /\ get_expanded(World, i, cond).val = D(EmptyDict)

\* the parameters of a dedicated query, written out
Dedicated(opts, off) ==
    [k \in DOMAIN opts \cup {"rows"} \cup off |->
        IF k = "rows" THEN I(0) ELSE IF k \in off THEN B(FALSE) ELSE opts[k]]

\* C8: with a populated cache count() makes no transport call, returns the
\* cached total and changes nothing; with an empty cache it makes one call,
\* with the compiled parameters and rows=0, facet=false, hl=false in place of
\* whatever the state or the raw parameters say, changes nothing (the cache
\* stays empty) and, given a response, returns its total.  len() is count().
C8_CountIsDedicated ==
    \A i \in Builders, cond \in Conditions :
        LET r    == count(World, i, cond)
            opts == Dedicated(query_opts(World, objs[i]), {"facet", "hl"})
        IN  /\ r.w = World
            /\ __len__(World, i, cond) = r
            /\ Warm(i) => r.sent = <<>> /\ r.val = I(objs[i]._result_cache.numFound)
            /\ Cold(i) =>
                   /\ r.sent = <<opts>>
                   /\ Succeeds(cond) => r.val = I(solr_query(opts, cond).numFound)

\* a queryset with a raw rows parameter and an empty cache, counted with
\* rows=0, next to a queryset with a populated cache
C8_Witness ==
    \E i, j \in Builders, cond \in Conditions :
        /\ Succeeds(cond)
        /\ Warm(i)
        /\ count(World, i, cond).sent = <<>>
        /\ Cold(j)
        /\ Get(World, objs[j], "raw_params") = "rows" :> I(1)
        /\ count(World, j, cond).sent[1]["rows"] = I(0)
        /\ count(World, j, cond).val = I(NumDocs)

\* C9 as the specification states it: on an empty cache each accessor makes
\* one call with rows=0 and leaves the cache empty.
C9_AllAccessorsDedicated ==
    \A i \in Builders, cond \in Conditions :
        Cold(i) /\ Succeeds(cond) =>
            \A r \in {get_facets(World, i, cond), get_stats(World, i, cond),
                      get_highlighting(World, i, cond), get_expanded(World, i, cond)} :
                /\ Len(r.sent) = 1
                /\ HasKey(r.sent[1], "rows") /\ r.sent[1]["rows"] = I(0)
                /\ r.w.objs[i]._result_cache = None

\* C9: with a populated cache each accessor returns its section of the cache,
\* makes no transport call and changes nothing.  With an empty cache
\* get_facets and get_stats make one call with the compiled parameters and
\* rows=0, hl=false, and change nothing; get_highlighting and get_expanded
\* run get_results(): one call with the compiled parameters as they are,
\* whose response becomes the cache.
C9_AccessorQueries ==
    \A i \in Builders, cond \in Conditions :
        LET f    == get_facets(World, i, cond)
            s    == get_stats(World, i, cond)
            h    == get_highlighting(World, i, cond)
            e    == get_expanded(World, i, cond)
            opts == query_opts(World, objs[i])
            run  == get_results(World, i, EmptyDict, cond)
        IN  /\ Warm(i) =>
                /\ \A r \in {f, s, h, e} : r.sent = <<>> /\ r.w = World
                /\ f.val = D(objs[i]._result_cache.facet_counts)
                /\ s.val = D(objs[i]._result_cache.stats)
                /\ h.val = D(objs[i]._result_cache.highlighting)
                /\ e.val = D(objs[i]._result_cache.expanded)
            /\ Cold(i) =>
                /\ \A r \in {f, s} :
                       r.sent = <<Dedicated(opts, {"hl"})>> /\ r.w = World
                /\ \A r \in {h, e} :
                       /\ r.sent = <<opts>>
                       /\ r.w = run.w
                       /\ Succeeds(cond) =>
                              r.w.objs[i]._result_cache = solr_query(opts, cond)
                /\ Succeeds(cond) =>
                       /\ f.val = D(solr_query(Dedicated(opts, {"hl"}), cond).facet_counts)
                       /\ s.val = D(solr_query(Dedicated(opts, {"hl"}), cond).stats)
                       /\ h.val = D(solr_query(opts, cond).highlighting)
                       /\ e.val = D(solr_query(opts, cond).expanded)

\* a queryset with highlighting and an empty cache: get_highlighting returns
\* the highlighting of its documents and populates the cache, get_facets
\* leaves it empty; next to it a queryset with a populated cache
C9_Witness ==
    \E i, j \in Builders, cond \in Conditions :
        /\ Succeeds(cond)
        /\ Warm(i)
        /\ Cold(j)
        /\ Get(World, objs[j], "highlight_fields") # <<>>
        /\ get_highlighting(World, j, cond).val.dict # EmptyDict
        /\ get_highlighting(World, j, cond).w.objs[j]._result_cache # None
        /\ get_facets(World, j, cond).w = World

C11_RowsWhenStopSet ==
    compiled # None =>
        LET b == objs[1]
        IN  /\ HasKey(compiled.dict, "rows") <=> b.stop # None
            /\ b.stop # None => compiled.dict["rows"] = I(b.stop.int - b.start)

\* keyword arguments given to get_results
SentOverrides ==
    {EmptyDict,
     "q" :> S("name:y"),
     ("q" :> S("name:y")) @@ ("rows" :> I(5)),
     "sort" :> S("")}

\* the parameters compiled from the query state of queryset i alone, its raw
\* parameters left out
Computed(i) == query_opts(Mutate(World, i, "raw_params", D(EmptyDict)), objs[i])

\* C12 as the specification states it: each key sent is the keyword
\* argument, else the raw parameter, else the computed value.
C12_RawAlwaysSent ==
    \A i \in Builders, kwargs \in SentOverrides, cond \in Conditions :
        LET sent == get_results(World, i, kwargs, cond).sent[1]
            raw  == Get(World, objs[i], "raw_params")
        IN  /\ DOMAIN sent = DOMAIN kwargs \cup DOMAIN raw \cup DOMAIN Computed(i)
            /\ \A k \in DOMAIN sent :
                   sent[k] = IF HasKey(kwargs, k) THEN kwargs[k]
                             ELSE IF HasKey(raw, k) THEN raw[k]
                             ELSE Computed(i)[k]

\* C12: get_results(**kwargs) makes one call; each key sent is the keyword
\* argument if one is given, else the raw parameter if one was set to
\* something other than "" and [], else the value computed from the query
\* state if no raw parameter of that name was set.  A raw parameter set to ""
\* or [] sends nothing under its key and removes the computed value.
C12_Precedence ==
    \A i \in Builders, kwargs \in SentOverrides, cond \in Conditions :
        LET run  == get_results(World, i, kwargs, cond)
            raw  == Get(World, objs[i], "raw_params")
            kept == {k \in DOMAIN raw : raw[k] \notin {S(""), L(<<>>)}}
            own  == DOMAIN Computed(i) \ DOMAIN raw
        IN  /\ Len(run.sent) = 1
            /\ DOMAIN run.sent[1] = DOMAIN kwargs \cup kept \cup own
            /\ \A k \in DOMAIN run.sent[1] :
                   run.sent[1][k] = IF HasKey(kwargs, k) THEN kwargs[k]
                                    ELSE IF k \in kept THEN raw[k]
                                    ELSE Computed(i)[k]

\* a queryset with a search term and the raw parameter q=id:1, executed with
\* q=name:y: the response in its cache answers q=name:y with the raw row limit
C12_Witness ==
    \E i \in Builders :
        /\ Warm(i)
        /\ Get(World, objs[i], "search_qs") # <<>>
        /\ HasKey(Get(World, objs[i], "raw_params"), "q")
        /\ Get(World, objs[i], "raw_params")["q"] = S("id:1")
        /\ objs[i]._result_cache.params["q"] = S("name:y")
        /\ objs[i]._result_cache.params["rows"] = I(1)
        /\ Computed(i)["q"] = S("x")

\* calls of group: a field alone, a field with one option, with two
GroupCalls ==
    {[field |-> "year", kwargs |-> <<>>],
     [field |-> "year", kwargs |-> <<<<"limit", I(3)>>>>],
     [field |-> "name", kwargs |-> <<<<"limit", I(1)>>, <<"sort", S("year desc")>>>>]}

\* C13: group(field, **opts) returns a new queryset whose group field is
\* field and whose group options hold each opt under "group.<opt>" (next to
\* the options the receiver had), the receiver keeping its query state; the
\* parameters compiled for a queryset with a group field have group=true,
\* group.field=<field> and every group option; a clone of it has the same
\* group field and options; the parameters compiled for a queryset with no
\* group field have no group key.
C13_Grouping ==
    /\ \A i \in Builders, a \in GroupCalls :
           LET Holds(w1) ==
                   /\ Last(w1) = Last(World) + 1
                   /\ w1.objs[Last(w1)].group_field = S(a.field)
                   /\ DOMAIN Get(w1, w1.objs[Last(w1)], "group_opts")
                          = DOMAIN Get(World, objs[i], "group_opts")
                              \cup {"group." \o a.kwargs[n][1] : n \in DOMAIN a.kwargs}
                   /\ \A n \in DOMAIN a.kwargs :
                          Get(w1, w1.objs[Last(w1)], "group_opts")["group." \o a.kwargs[n][1]]
                              = a.kwargs[n][2]
                   /\ QueryState(w1, i) = QueryState(World, i)
           IN  Holds(group(World, i, a.field, a.kwargs))
    /\ \A i \in Builders :
           LET Compiles(opts, grp) ==
                   IF objs[i].group_field = None
                   THEN ~ HasKey(opts, "group")
                   ELSE /\ HasKey(opts, "group") /\ opts["group"] = B(TRUE)
                        /\ HasKey(opts, "group.field")
                        /\ opts["group.field"] = objs[i].group_field
                        /\ \A k \in DOMAIN grp : HasKey(opts, k) /\ opts[k] = grp[k]
               Kept(w1) ==
                   /\ w1.objs[Last(w1)].group_field = objs[i].group_field
                   /\ Get(w1, w1.objs[Last(w1)], "group_opts")
                          = Get(World, objs[i], "group_opts")
           IN  /\ Compiles(query_opts(World, objs[i]), Get(World, objs[i], "group_opts"))
               /\ Kept(Clone(World, i))

\* a queryset group("year", limit=3) returned, next to one with no group
\* field: its parameters have group, group.field and group.limit
C13_Witness ==
    \E i, j \in Builders :
        /\ objs[i].group_field = None
        /\ objs[j].group_field = S("year")
        /\ World = group(Before(Len(ClassAttrs)), i, "year", <<<<"limit", I(3)>>>>)
        /\ Get(World, objs[j], "group_opts") = ("group.limit" :> I(3))
        /\ query_opts(World, objs[j])["group"] = B(TRUE)
        /\ query_opts(World, objs[j])["group.limit"] = I(3)

\* the call made was key=value with tag, and it has returned
Translated(key) == term # None /\ term.key = key /\ term.query # None

\* C14: for the key type__in and a list of strings, "" and None, the term is
\* "-type:[* TO *]" when no value other than "" and None is in the list;
\* otherwise "type:(v1 OR v2 ...)" over the other values in the order of the
\* list, inside "-(type:[* TO *] OR -...)" exactly when "" or None was in the
\* list; a non-empty tag comes first as "{!tag=<tag>}" in each case.
C14_InLookup ==
    Translated("type__in") =>
        LET vs      == term.value.list
            Kept(v) == v # S("") /\ v # None
            values  == SelectSeq(vs, Kept)
            listed  == "type:(" \o Join(" OR ", [n \in DOMAIN values |-> values[n].str])
                                \o ")"
            body    == IF values = <<>> THEN "-type:[* TO *]"
                       ELSE IF Len(values) < Len(vs)
                       THEN "-(type:[* TO *] OR -" \o listed \o ")"
                       ELSE listed
        IN  term.query = S((IF term.tag = "" THEN "" ELSE "{!tag=" \o term.tag \o "}")
                           \o body)

\* _lookup_to_filter("type__in", ["b", None, "a"], tag="t") has returned
C14_Witness ==
    /\ Translated("type__in")
    /\ term.value = L(<<S("b"), None, S("a")>>)
    /\ term.tag = "t"
    /\ term.query = S("{!tag=t}-(type:[* TO *] OR -type:(b OR a))")

\* C15 as the specification states it: a lookup that is none of in, exists
\* and range gives the term "<key>:<value>" over the whole key.
C15_UnknownSuffixLiteral ==
    Translated("type__other") =>
        term.query = S((IF term.tag = "" THEN "" ELSE "{!tag=" \o term.tag \o "}")
                       \o "type__other:" \o Fmt(term.value))

\* the concatenation of a sequence of sequences
RECURSIVE Flat(_)
Flat(seqs) == IF seqs = <<>> THEN <<>> ELSE seqs[1] \o Flat(Tail(seqs))

\* the sequences of length 1 to n over the set made
RECURSIVE Chains(_, _)
Chains(made, n) ==
    IF n = 0 THEN {}
    ELSE {<<c>> : c \in made} \cup Chains(made, n - 1)
         \cup {Append(cs, c) : cs \in Chains(made, n - 1), c \in made}

\* the longest chain of calls followed
MaxChain == 2

\* calls of only (replace) and also (no replace), with fields and with
\* alias=field keywords
FieldCalls ==
    {[args |-> <<"title", "id">>, replace |-> TRUE, kwargs |-> <<<<"date", S("year_i")>>>>],
     [args |-> <<"id">>, replace |-> FALSE, kwargs |-> <<>>],
     [args |-> <<"score">>, replace |-> FALSE, kwargs |-> <<<<"n", I(1)>>>>]}

\* the world after the calls of a chain, each made on the queryset the one
\* before returned, the first on queryset i
RECURSIVE OnlyChain(_, _, _)
OnlyChain(w, i, calls) ==
    IF calls = <<>> THEN w
    ELSE LET Rest(w1) == OnlyChain(w1, Last(w1), Tail(calls))
         IN  Rest(only(w, i, calls[1].args, calls[1].replace, calls[1].kwargs))

\* C16: after a chain of only and also calls that starts on a queryset, the
\* field list of the queryset the last call returned is the positional
\* fields, then the "key:value" entries, of the last only call, followed in
\* call order by those of each also call after it; with no only call in the
\* chain it is the field list of the starting queryset followed by those of
\* each also call.
C16_OnlyReplacesAlsoAppends ==
    \A i \in Builders, calls \in Chains(FieldCalls, MaxChain) :
        LET Entries(c) ==
                c.args \o [n \in DOMAIN c.kwargs |->
                               c.kwargs[n][1] \o ":" \o Fmt(c.kwargs[n][2])]
            onlys == {n \in DOMAIN calls : calls[n].replace}
            from  == IF onlys = {} THEN 1
                     ELSE CHOOSE n \in onlys : \A m \in onlys : m <= n
            Is(w1) ==
                Get(w1, w1.objs[Last(w1)], "field_list")
                    = (IF onlys = {} THEN Get(World, objs[i], "field_list") ELSE <<>>)
                      \o Flat([n \in 1..(Len(calls) - from + 1) |->
                                  Entries(calls[from + n - 1])])
        IN  Is(OnlyChain(World, i, calls))

\* only("name") returned the queryset created last; also("score", n=1) on it
\* gives name, score, n:1 and only("title", "id", date="year_i") then
\* also("id") gives title, id, date:year_i, id
C16_Witness ==
    \E i \in Builders :
        LET w1 == only(World, i, <<"score">>, FALSE, <<<<"n", I(1)>>>>)
            w2 == OnlyChain(World, i,
                            <<[args |-> <<"title", "id">>, replace |-> TRUE,
                               kwargs |-> <<<<"date", S("year_i")>>>>],
                              [args |-> <<"id">>, replace |-> FALSE, kwargs |-> <<>>]>>)
        IN  /\ Get(World, objs[i], "field_list") = <<"name">>
            /\ Get(w1, w1.objs[Last(w1)], "field_list") = <<"name", "score", "n:1">>
            /\ Get(w2, w2.objs[Last(w2)], "field_list")
                   = <<"title", "id", "date:year_i", "id">>

\* calls of facet (fields in args) and of facet_field (the field in args)
FacetCalls ==
    {[facet |-> TRUE, args |-> <<"year", "type">>, exclude |-> "",
      kwargs |-> <<<<"sort", S("count")>>>>],
     [facet |-> FALSE, args |-> <<"name">>, exclude |-> "t",
      kwargs |-> <<<<"missing", B(TRUE)>>>>],
     [facet |-> FALSE, args |-> <<"name">>, exclude |-> "",
      kwargs |-> <<<<"missing", B(FALSE)>>, <<"limit", I(5)>>>>]}

\* the world after the calls of a chain, each made on the queryset the one
\* before returned, the first on queryset i
RECURSIVE FacetChain(_, _, _)
FacetChain(w, i, calls) ==
    IF calls = <<>> THEN w
    ELSE LET Rest(w1) == FacetChain(w1, Last(w1), Tail(calls))
         IN  Rest(IF calls[1].facet THEN facet(w, i, calls[1].args, calls[1].kwargs)
                  ELSE facet_field(w, i, calls[1].args[1], calls[1].exclude,
                                   calls[1].kwargs))

\* C17: after a chain of facet and facet_field calls that starts on a
\* queryset, the facet fields of the queryset the last call returned are the
\* arguments of the last facet call (the facet fields of the starting
\* queryset when there is none) followed in call order by the field of each
\* facet_field call after it, written "{!ex=<tag>}<field>" when the call
\* excludes a tag; its facet options have every key the starting queryset
\* had and every key a call gave (as given by facet, as
\* "f.<field>.facet.<opt>" by facet_field), each with the value of the last
\* call that gave it, or the starting value when no call did.
C17_FacetReplacesFieldAppends ==
    \A i \in Builders, calls \in Chains(FacetCalls, MaxChain) :
        LET Fields(c) ==
                IF c.facet THEN c.args
                ELSE <<(IF c.exclude = "" THEN "" ELSE "{!ex=" \o c.exclude \o "}")
                       \o c.args[1]>>
            Name(c, opt) ==
                IF c.facet THEN opt ELSE "f." \o c.args[1] \o ".facet." \o opt
            Given(n) == {Name(calls[n], calls[n].kwargs[m][1]) : m \in DOMAIN calls[n].kwargs}
            ValueIn(n, k) ==
                LET c == calls[n]
                IN  c.kwargs[CHOOSE m \in DOMAIN c.kwargs : Name(c, c.kwargs[m][1]) = k][2]
            Latest(ns) == CHOOSE n \in ns : \A m \in ns : m <= n
            facets == {n \in DOMAIN calls : calls[n].facet}
            from   == IF facets = {} THEN 1 ELSE Latest(facets)
            start  == Get(World, objs[i], "facet_opts")
            Is(w1) ==
                /\ Get(w1, w1.objs[Last(w1)], "facet_field_list")
                       = (IF facets = {} THEN Get(World, objs[i], "facet_field_list")
                          ELSE <<>>)
                         \o Flat([n \in 1..(Len(calls) - from + 1) |->
                                     Fields(calls[from + n - 1])])
                /\ DOMAIN Get(w1, w1.objs[Last(w1)], "facet_opts")
                       = DOMAIN start \cup UNION {Given(n) : n \in DOMAIN calls}
                /\ \A k \in DOMAIN Get(w1, w1.objs[Last(w1)], "facet_opts") :
                       Get(w1, w1.objs[Last(w1)], "facet_opts")[k]
                           = IF \E n \in DOMAIN calls : k \in Given(n)
                             THEN ValueIn(Latest({n \in DOMAIN calls : k \in Given(n)}), k)
                             ELSE start[k]
        IN  Is(FacetChain(World, i, calls))

\* facet("year", sort="count") on a queryset with the option mincount=1
\* returned the queryset created last: year alone, sort next to mincount;
\* facet_field("name", exclude="t", missing=True) on it adds {!ex=t}name and
\* f.name.facet.missing
C17_Witness ==
    \E i \in Builders :
        LET w1 == facet_field(World, i, "name", "t", <<<<"missing", B(TRUE)>>>>)
        IN  /\ Get(World, objs[1], "facet_field_list") = <<"year_i">>
            /\ Get(World, objs[i], "facet_field_list") = <<"year">>
            /\ Get(World, objs[i], "facet_opts")
                   = ("sort" :> S("count")) @@ ("mincount" :> I(1))
            /\ Get(w1, w1.objs[Last(w1)], "facet_field_list") = <<"year", "{!ex=t}name">>
            /\ Get(w1, w1.objs[Last(w1)], "facet_opts")
                   = ("sort" :> S("count")) @@ ("mincount" :> I(1))
                     @@ ("f.name.facet.missing" :> B(TRUE))

\* the key is a negative integer or a slice with a negative start or stop
Negative(k) ==
    \/ IsInt(k) /\ k.int < 0
    \/ /\ IsSlice(k)
       /\ \/ k.slice[1] # None /\ k.slice[1].int < 0
          \/ k.slice[2] # None /\ k.slice[2].int < 0

\* C18: qs[k] raises TypeError for a key that is neither an integer nor a
\* slice and AssertionError for a negative integer or a slice with a negative
\* start or stop; in both cases no queryset is created, nothing is sent, and
\* the state and the cache of every queryset are as before, whether or not
\* the cache of qs is populated.
C18_IndexPreconditions ==
    \A i \in Builders, k \in IndexKeys, cond \in Conditions :
        LET Fails(r, exc) == r.val = Raise(exc) /\ r.sent = <<>> /\ r.w = World
            Checked(r) ==
                /\ ~ (IsInt(k) \/ IsSlice(k)) => Fails(r, "TypeError")
                /\ Negative(k) => Fails(r, "AssertionError")
        IN  Checked(__getitem__(World, i, k, cond))

\* a queryset with a populated cache next to one with an empty cache: both
\* refuse the key -1 and the key "a"
C18_Witness ==
    \E i, j \in Builders, cond \in Conditions :
        /\ Warm(i) /\ Cold(j)
        /\ __getitem__(World, i, I(-1), cond).val = Raise("AssertionError")
        /\ __getitem__(World, i, S("a"), cond).val = Raise("TypeError")
        /\ __getitem__(World, j, Slice(None, I(-2), None), cond).val
               = Raise("AssertionError")
        /\ __getitem__(World, j, S("a"), cond).w = World

\* C19: on a queryset with an empty cache, qs[a:b] with no step sends
\* nothing and returns a new queryset with an empty cache, start a (0 when a
\* is left out), stop b (none when b is left out) and the group field and
\* the content of every list and dict of qs; every queryset there was,
\* qs among them, has its start, stop, content and cache as before.
C19_LazySlice ==
    \A i \in Builders, k \in IndexKeys, cond \in Conditions :
        IsSlice(k) /\ ~ Negative(k) /\ k.slice[3] = None /\ Cold(i) =>
            LET Lazy(r) ==
                    /\ r.sent = <<>>
                    /\ Last(r.w) = Last(World) + 1
                    /\ r.val = [qs |-> Last(r.w)]
                    /\ r.w.objs[Last(r.w)]._result_cache = None
                    /\ r.w.objs[Last(r.w)].start
                           = (IF k.slice[1] = None THEN 0 ELSE k.slice[1].int)
                    /\ r.w.objs[Last(r.w)].stop = k.slice[2]
                    /\ QueryState(r.w, Last(r.w)).cells = QueryState(World, i).cells
                    /\ QueryState(r.w, Last(r.w)).group_field = objs[i].group_field
                    /\ \A j \in Builders :
                           /\ QueryState(r.w, j) = QueryState(World, j)
                           /\ r.w.objs[j]._result_cache = objs[j]._result_cache
            IN  Lazy(__getitem__(World, i, k, cond))

\* qs[:2] on a queryset limited to [1, 2) returned the queryset created
\* last: it starts at 0, stops at 2 and has no cache, as the one sliced
C19_Witness ==
    /\ Newest(Len(ClassAttrs))
    /\ \E i \in DOMAIN Before(Len(ClassAttrs)).objs, cond \in Met :
           /\ World = __getitem__(Before(Len(ClassAttrs)), i,
                                   Slice(None, I(2), None), cond).w
           /\ objs[i].start = 1 /\ objs[i].stop = I(2) /\ Cold(i)
           /\ objs[Last(World)].start = 0
           /\ objs[Last(World)].stop = I(2)
           /\ Cold(Last(World))

\* the parameters compiled from queryset i with the window [k, k + 1)
Windowed(i, k) ==
    query_opts(World, [objs[i] EXCEPT !.start = k, !.stop = I(k + 1)])

\* C20: on a queryset with an empty cache, qs[k] for an integer k >= 0 makes
\* one call, with the parameters compiled from the state of qs with the
\* window [k, k + 1): start=k and rows=1; it returns the first document of
\* the response when the response has one, raises IndexError when the
\* response has none or there is no response, and raises what the transport
\* raised; no queryset is left behind, and the start, the stop, the content
\* and the cache of every queryset are as before.
C20_IntegerIndex ==
    \A i \in Builders, k \in IndexKeys, cond \in Conditions :
        IsInt(k) /\ ~ Negative(k) /\ Cold(i) =>
            LET Got(r, response) ==
                    /\ Len(r.sent) = 1
                    /\ r.sent[1] = Windowed(i, k.int)
                    /\ r.sent[1]["start"] = I(k.int)
                    /\ r.sent[1]["rows"] = I(1)
                    /\ r.val = IF Raised(response) THEN response
                               ELSE IF response = None THEN Raise("IndexError")
                               ELSE IF response.docs = <<>> THEN Raise("IndexError")
                               ELSE response.docs[1]
                    /\ Succeeds(cond) /\ HasKey(r.sent[1], "q") /\ k.int < NumDocs
                           => r.val = [id |-> k.int + 1]
                    /\ r.w = World
            IN  Got(__getitem__(World, i, k, cond), make_request(Windowed(i, k.int), cond))

\* a queryset with a search term, limited to [1, 2) and not executed: qs[1]
\* asks for start=1, rows=1 and returns the second document; it finds none
\* when the backend gives no response
C20_Witness ==
    \E i \in Builders, cond, other \in Conditions :
        /\ Cold(i)
        /\ objs[i].start = 1 /\ objs[i].stop = I(2)
        /\ Get(World, objs[i], "search_qs") = <<"x">>
        /\ Succeeds(cond)
        /\ Absent(other)
        /\ __getitem__(World, i, I(1), cond).sent[1]["start"] = I(1)
        /\ __getitem__(World, i, I(1), cond).val = [id |-> 2]
        /\ __getitem__(World, i, I(1), other).val = Raise("IndexError")

\* every step-th of the documents at the positions lo to hi - 1 of the
\* result set, the document at position n being the one with id n + 1
EveryNth(lo, hi, step) ==
    [m \in 1..(IF hi > lo THEN (hi - lo + step - 1) \div step ELSE 0) |->
        [id |-> lo + (m - 1) * step + 1]]

\* the slice has a step, and neither a negative bound nor the stop 0
SteppedSlice(k) ==
    /\ IsSlice(k) /\ ~ Negative(k)
    /\ k.slice[3] # None /\ k.slice[3].int > 0
    /\ k.slice[2] # I(0)

AliasTermCalls ==
    {[args |-> <<>>, tag |-> "", kwargs |-> <<<<"name", S("Jane")>>>>,
      terms |-> <<"name_t:Jane">>],
     [args |-> <<>>, tag |-> "",
      kwargs |-> <<<<"name__in", L(<<S("Jane"), S("Judy")>>)>>>>,
      terms |-> <<"name_t:(Jane OR Judy)">>],
     [args |-> <<"name:foo">>, tag |-> "",
      kwargs |-> <<<<"year__exists", B(TRUE)>>, <<"tuesday", S("wednesday")>>>>,
      terms |-> <<"name:foo", "year_i:[* TO *]", "tuesday:wednesday">>],
     [args |-> <<"foo:bar">>, tag |-> "baz", kwargs |-> <<<<"name", S("Jane")>>>>,
      terms |-> <<"foo:bar", "name_t:Jane">>]}

\* the term as filter adds it: keyword terms carry the tag of the call
Tagged(call, n) ==
    IF call.tag # "" /\ n > Len(call.args)
    THEN "{!tag=" \o call.tag \o "}" \o call.terms[n]
    ELSE call.terms[n]

C24_OrderByUnaliased ==
    \A i \in Builders :
        IsAliased(World, i) =>
            LET Added(w1, options) ==
                    Get(w1, w1.objs[Last(w1)], "sort_options")
                        = Get(World, objs[i], "sort_options") \o options
            IN  /\ Added(Aliased_order_by(World, i, <<"year">>), <<"year_i asc">>)
                /\ Added(Aliased_order_by(World, i, <<"-title", "name">>),
                         <<"title desc", "name_t asc">>)
                /\ Added(Aliased_order_by(World, i, <<"-year">>), <<"year_i desc">>)

\* C23 as the specification states it: on an alias queryset each of
\* get_facets, get_stats and get_highlighting returns what the base accessor
\* returns with every field key that is the backend name of an aliased field
\* replaced by the alias: the fields of facet_fields and facet_ranges, the
\* fields of stats_fields, the fields of each highlighted document.  Other
\* keys and every value under a key are the base accessor's.
C23_AccessorsRekeyed ==
    \A i \in Builders, cond \in Conditions :
        IsAliased(World, i) =>
            LET Key(field) == GetOrSelf(reverse_aliases(objs[i].cls), field)
                Renamed(given, got) ==
                    /\ DOMAIN got = {Key(f) : f \in DOMAIN given}
                    /\ \A f \in DOMAIN given : got[Key(f)] = given[f]
                Sections(given, got, fielded) ==
                    /\ DOMAIN got = DOMAIN given
                    /\ \A s \in DOMAIN given :
                           IF s \in fielded THEN Renamed(given[s], got[s])
                           ELSE got[s] = given[s]
                Same(base, al, fielded) ==
                    IF Raised(base.val) THEN al.val = base.val
                    ELSE /\ ~ Raised(al.val)
                         /\ Sections(base.val.dict, al.val.dict, fielded)
            IN  /\ Same(get_facets(World, i, cond), Aliased_get_facets(World, i, cond),
                        {"facet_fields", "facet_ranges"})
                /\ Same(get_stats(World, i, cond), Aliased_get_stats(World, i, cond),
                        {"stats_fields"})
                /\ Same(get_highlighting(World, i, cond),
                        Aliased_get_highlighting(World, i, cond),
                        DOMAIN get_highlighting(World, i, cond).val.dict)

\* C30 as stated: get_facets on an alias queryset with a populated cache
\* makes no request, leaves the queryset and its cached response as they
\* were, the facet sections of the cache keyed by backend field names, and
\* returns the same again when called again.
C30_FacetsReadOnly ==
    \A i \in Builders, cond \in Conditions :
        IsAliased(World, i) /\ Warm(i) =>
            LET Again(first) ==
                    /\ first.sent = <<>>
                    /\ first.w = World
                    /\ Aliased_get_facets(first.w, i, cond).val = first.val
            IN  Again(Aliased_get_facets(World, i, cond))

\* C25: the facet counts of a response hold, for every facet field and for
\* the counts of every range facet, one entry for each pair of the flat array
\* Solr sent, in the array's order: the n-th entry is the n-th value with the
\* count that followed it.  What else a range facet has is as Solr sent it.
C25_FacetPairs ==
    term.response # None =>
        LET sent    == term.body.facet_counts
            exposed == term.response.facet_counts
            InOrder(flat, items) ==
                /\ Len(items) * 2 = Len(flat)
                /\ \A n \in DOMAIN items :
                       items[n] = <<flat[2 * n - 1], flat[2 * n]>>
        IN  /\ DOMAIN exposed = DOMAIN sent
            /\ DOMAIN exposed["facet_fields"] = DOMAIN sent["facet_fields"]
            /\ DOMAIN exposed["facet_ranges"] = DOMAIN sent["facet_ranges"]
            /\ \A f \in DOMAIN sent["facet_fields"] :
                   InOrder(sent["facet_fields"][f], exposed["facet_fields"][f])
            /\ \A f \in DOMAIN sent["facet_ranges"] :
                   /\ InOrder(sent["facet_ranges"][f].counts,
                              exposed["facet_ranges"][f].counts)
                   /\ exposed["facet_ranges"][f].gap = sent["facet_ranges"][f].gap

\* a response built from a body whose facet field lists "y" before "x" and
\* whose range facet has two values
C25_Witness ==
    /\ term.response # None
    /\ term.body.facet_counts["facet_fields"]["type"] = <<S("y"), I(1), S("x"), I(2)>>
    /\ term.response.facet_counts["facet_fields"]["type"]
           = <<<<S("y"), I(1)>>, <<S("x"), I(2)>>>>
    /\ Len(term.response.facet_counts["facet_ranges"]["year_i"].counts) = 2

\* C26 as the specification states it: whatever the interleaving of two
\* get_results calls on one queryset and whatever their requests meet, no
\* call raises, a call that has returned has returned the documents of the
\* response its own request produced (none when it produced no response),
\* once both have assigned the cache it holds what one of them assigned,
\* and the queryset standing by is as it was: no cache, the state it was
\* cloned with.
C26_BenignRace ==
    /\ \A t \in DOMAIN threads :
           /\ ~ Raised(threads[t].val)
           /\ threads[t].pc = "done" =>
                  threads[t].val = IF threads[t].result = None THEN L(<<>>)
                                   ELSE L(threads[t].result.docs)
    /\ (threads # <<>> /\ \A t \in DOMAIN threads : threads[t].pc \in {"test", "read", "done"})
           => \E t \in DOMAIN threads : objs[1]._result_cache = threads[t].result
    /\ threads # <<>> =>
           /\ objs[2]._result_cache = None
           /\ [a \in Attrs |-> heap[objs[2].ref[a]]] = [a \in Attrs |-> heap[objs[1].ref[a]]]

\* the worlds left by the directives that do not set the field list, called
\* on queryset i
Directed(i) ==
    IF IsAliased(World, i)
    THEN {Aliased_filter(World, i, <<"date:[1 TO 2]">>, "t", <<<<"name", S("x")>>>>),
          Aliased_search(World, i, <<"x">>, <<>>),
          Aliased_order_by(World, i, <<"year">>),
          Aliased_facet(World, i, <<"year">>, <<>>),
          Aliased_facet_field(World, i, "name", "", <<>>),
          facet_range(World, i, "year_i", <<<<"gap", I(10)>>>>),
          stats(World, i, <<"year_i">>, <<>>),
          Aliased_highlight(World, i, "name", <<>>),
          Aliased_group(World, i, "year", <<>>),
          raw_query_parameters(World, i, <<<<"rows", I(1)>>>>),
          all(World, i),
          none(World, i)}
    ELSE {filter(World, i, <<"date:[1 TO 2]">>, "t", <<<<"name", S("x")>>>>),
          search(World, i, <<"x">>, <<>>),
          order_by(World, i, <<"year">>),
          facet(World, i, <<"year">>, <<>>),
          facet_field(World, i, "name", "", <<>>),
          facet_range(World, i, "year_i", <<<<"gap", I(10)>>>>),
          stats(World, i, <<"year_i">>, <<>>),
          highlight(World, i, "name", <<>>),
          group(World, i, "year", <<>>),
          raw_query_parameters(World, i, <<<<"rows", I(1)>>>>),
          all(World, i),
          none(World, i)}

\* C27: the queryset a directive, a lazy slice or query() returns is of the
\* class of the queryset it was called on, hence with the same field_aliases
\* and reverse_aliases; its field list is the receiver's current one, not
\* the one the constructor of an alias queryset seeds: unchanged after a
\* directive that does not set fields, after a lazy slice and after query(),
\* the receiver's list with the new field after also().
C27_SameSubclass ==
    \A i \in Builders :
        LET Fields(w, j) == Get(w, w.objs[j], "field_list")
            Same(w1) ==
                /\ Last(w1) = Last(World) + 1
                /\ w1.objs[Last(w1)].cls = objs[i].cls
                /\ field_aliases(w1.objs[Last(w1)].cls) = field_aliases(objs[i].cls)
                /\ reverse_aliases(w1.objs[Last(w1)].cls) = reverse_aliases(objs[i].cls)
            Kept(w1) == Same(w1) /\ Fields(w1, Last(w1)) = Fields(World, i)
            Added(w1, new) == Same(w1) /\ Fields(w1, Last(w1)) = Fields(World, i) \o new
            Only_(j, replace) ==
                IF IsAliased(World, j)
                THEN Aliased_only(World, j, <<"name">>, replace, <<>>)
                ELSE only(World, j, <<"name">>, replace, <<>>)
        IN  /\ \A w1 \in Directed(i) : Kept(w1)
            /\ Same(Only_(i, TRUE))
            /\ Added(Only_(i, FALSE),
                     IF IsAliased(World, i) THEN <<"name:name_t">> ELSE <<"name">>)
            /\ Cold(i) =>
                   Kept(__getitem__(World, i, Slice(I(1), I(3), None), CHOOSE c \in Met : Succeeds(c)).w)
            /\ \A cond \in Met :
                   ~ Raised(query(World, i, EmptyDict, cond).val) =>
                       Kept(query(World, i, EmptyDict, cond).w)

\* an alias queryset whose field list only() replaced, and the alias
\* queryset filter returned for it, with that field list
C27_Witness ==
    /\ Newest(Len(ClassAttrs))
    /\ \E i \in DOMAIN Before(Len(ClassAttrs)).objs :
           /\ IsAliased(World, i)
           /\ Get(World, objs[i], "field_list") = <<"id">>
           /\ Get(World, objs[Last(World)], "field_list") = <<"id">>
           /\ Get(World, objs[Last(World)], "filter_qs")
                  # Get(World, objs[i], "filter_qs")
           /\ objs[Last(World)].cls = AliasCls

\* the response to the parameters a queryset compiles to now
Answer(i) == solr_query(query_opts(World, objs[i]), CHOOSE c \in Conditions : Succeeds(c))

\* C28 as stated: a populated cache is the response to the parameters the
\* queryset compiles to, so that count() and get_facets() return that
\* response's total and facets.
C28_CacheCoherent ==
    \A i \in Builders, cond \in Conditions :
        Warm(i) =>
            /\ objs[i]._result_cache.params = query_opts(World, objs[i])
            /\ objs[i]._result_cache = Answer(i)
            /\ count(World, i, cond).val = I(Answer(i).numFound)
            /\ get_facets(World, i, cond).val = D(Answer(i).facet_counts)

\* the parameters get_results sends for queryset i when it has limits lim
Requested(i, lim, kwargs) ==
    Update(query_opts(World, [objs[i] EXCEPT
                                 !.start = IF lim.start = None THEN 0 ELSE lim.start.int,
                                 !.stop = lim.stop]),
           kwargs)

\* C28, amended: a populated cache answers the request of a get_results
\* call on that queryset, the parameters it compiled to at the time of the
\* call, under the limits it then had, updated with the keyword arguments
\* of the call; and count(), get_facets() and indexing return from it what
\* they return from the response to those parameters.
C28_CacheAnswersItsCall ==
    \A i \in Builders, cond \in Conditions :
        Warm(i) =>
            LET WithCache(response) == [World EXCEPT !.objs[i]._result_cache = response]
                Agree(asked) ==
                    /\ count(World, i, cond).val = I(asked.numFound)
                    /\ count(World, i, cond).val = count(WithCache(asked), i, cond).val
                    /\ IF IsAliased(World, i)
                       THEN Aliased_get_facets(World, i, cond).val
                                = Aliased_get_facets(WithCache(asked), i, cond).val
                       ELSE get_facets(World, i, cond).val = D(asked.facet_counts)
                    /\ \A k \in Keys :
                           __getitem__(World, i, k, cond).val
                               = __getitem__(WithCache(asked), i, k, cond).val
            IN  /\ \E lim \in Limits \cup {[start |-> I(objs[i].start), stop |-> objs[i].stop]},
                      kwargs \in Overrides :
                       objs[i]._result_cache.params = Requested(i, lim, kwargs)
                /\ Agree(solr_query(objs[i]._result_cache.params,
                                    CHOOSE c \in Conditions : Succeeds(c)))

\* a populated cache that answers q=name:y with no rows, on a queryset that
\* searches for x and has since been limited to [1:3]
C28_Witness ==
    \E i \in Builders :
        /\ Warm(i)
        /\ objs[i]._result_cache.params["q"] = S("name:y")
        /\ ~ HasKey(objs[i]._result_cache.params, "rows")
        /\ query_opts(World, objs[i])["q"] = S("x")
        /\ objs[i].stop = I(3)
        /\ query_opts(World, objs[i])["rows"] = I(2)
        /\ Len(objs[i]._result_cache.docs) = SolrDefaultRows

\* C29 as stated: a slice [c:d] of a queryset with an empty cache that is
\* limited to [a, b) is a queryset limited to [a + c, min(a + d, b)), and
\* executed it returns the slice [c:d] of the documents the limited
\* queryset returns.
C29_SlicesCompose ==
    \A i \in Builders, k \in IndexKeys, cond \in Conditions :
        /\ Cold(i) /\ objs[i].stop # None
        /\ IsSlice(k) /\ ~ Negative(k) /\ k.slice[3] = None
        /\ Succeeds(cond)
        => LET a == objs[i].start
               b == objs[i].stop.int
               c == IF k.slice[1] = None THEN 0 ELSE k.slice[1].int
               Composed(r, whole) ==
                   /\ r.w.objs[Last(r.w)].start = a + c
                   /\ r.w.objs[Last(r.w)].stop
                          = (IF k.slice[2] = None THEN I(b)
                             ELSE I(Min(a + k.slice[2].int, b)))
                   /\ get_results(r.w, Last(r.w), EmptyDict, cond).val
                          = L(PySlice(whole.val.list, k.slice[1], k.slice[2], None))
           IN  Composed(__getitem__(World, i, k, cond),
                        get_results(World, i, EmptyDict, cond))

====
